---- MODULE Spec2Model ----
(***************************************************************************)
(* Four components of SavantPrimitives:                                    *)
(*   VideoPipeline (savant/src/primitives/message/video/pipeline.rs): a    *)
(*     set of named stages, each typed Frame or Batch, holding payloads    *)
(*     keyed by ids drawn from one counter;                                *)
(*   PersistentQueue (savant_pq/src/lib.rs): a FIFO of byte buffers in a   *)
(*     RocksDB database, two index cells and a ring of data cells;         *)
(*   EtcdParameterStorage (etcd_dynamic_state/src/parameter_storage.rs):   *)
(*     a local copy of keys of an etcd cluster, kept by a worker task;     *)
(*   MatchQuery (savant/src/primitives/message/video/query/                *)
(*     match_query.rs): predicates on video objects, their JSON form, and  *)
(*     the filter and partition operators, on a list and on a batch.       *)
(*                                                                         *)
(* Every method is an operator from the object (`self`) and the arguments  *)
(* to its outcome: the object it leaves, whether it returned Ok, and the   *)
(* value it returned.  Every method is also an action that calls it on     *)
(* the current state.  Each component has its own specification (Spec,     *)
(* PQSpec, PSSpec, MQSpec); the variables of the other components stay as  *)
(* they are constructed.                                                   *)
(***************************************************************************)
EXTENDS Integers, Sequences, FiniteSets, TLC

\* ---------------------------------------------------------------- bounds
MaxId == 2          \* id_counter is capped here; ids are 1..MaxId

StageNames == {"input", "proc", "output"}
StageTypes == {"Frame", "Batch"}
\* the add_stage calls a caller makes
StageDecls == {<<"input", "Frame">>, <<"proc", "Batch">>,
               <<"output", "Frame">>, <<"output", "Batch">>}
FrameTags == <<"f1", "f2">>     \* the frames a caller owns
UpdateTags == <<"u1", "u2">>    \* the updates a caller owns
Ids == 1..MaxId

VARIABLES
    id_counter,     \* VideoPipeline.id_counter
    stages,         \* VideoPipeline.stages: name -> VideoPipelineStage.payload
    stage_types,    \* VideoPipeline.stage_types: name -> "Frame" | "Batch"
    last,           \* the most recent call: the method, Ok or not, the id returned
    issued,         \* every id a call has returned so far
    store,          \* the RocksDB database at the queue's path: key -> bytes
    queue,          \* the open PersistentQueue, NoQueue when none is open
    pushed,         \* the values of the pushes that returned Ok, in order
    popped,         \* the values the pops returned as Some, in order
    pq_last,        \* the most recent queue call: the method, Ok or not, the value
    parameters,     \* EtcdParameterStorage.parameters: key -> <<crc, value>>
    ops,            \* EtcdParameterStorage.ops: the pending operations
    handle,         \* EtcdParameterStorage.handle and the state of its task
    client,         \* EtcdParameterStorage.client is Some
    remote,         \* the keys and values the etcd cluster holds
    watch,          \* the watch notifications the cluster has sent, not yet applied
    worker,         \* where the worker task is in KVOperator::ops
    caller,         \* where the calling thread is between order_data_update and get_data
    mq_call,        \* the most recent call of the match query engine and its outcome
    registry,       \* the names of the registered plugin functions
    registrations   \* the names register_plugin_function has registered, in order

pipeline_vars == <<id_counter, stages, stage_types, last, issued>>
pq_vars == <<store, queue, pushed, popped, pq_last>>
ps_vars == <<parameters, ops, handle, client, remote, watch, worker, caller>>
mq_vars == <<mq_call, registry, registrations>>
vars == <<pipeline_vars, pq_vars, ps_vars, mq_vars>>

\* ------------------------------------------------------------- payloads
\* a frame is its identity and the updates applied to it so far
NewFrame(tag) == [tag |-> tag, attrs |-> <<>>]

NoFrame == NewFrame("none")

\* VideoFrameProxy::update: the update becomes part of the frame
FrameUpdate(frame, update) == [frame EXCEPT !.attrs = Append(@, update)]

\* VideoFrameBatch::new(): frame_id -> frame
VideoFrameBatch == [i \in Ids |-> NoFrame]

BatchAdd(batch, id, frame) == [batch EXCEPT ![id] = frame]

BatchGet(batch, id) == batch[id]

BatchIds(batch) == {i \in Ids : batch[i] # NoFrame}

NoPayload ==
    [kind |-> "None", frame |-> NoFrame, batch |-> VideoFrameBatch, updates |-> <<>>]

FramePayload(frame, updates) ==
    [kind |-> "Frame", frame |-> frame, batch |-> VideoFrameBatch, updates |-> updates]

BatchPayload(batch, updates) ==
    [kind |-> "Batch", frame |-> NoFrame, batch |-> batch, updates |-> updates]

\* VideoPipelineStage::default(): no payload under any id
VideoPipelineStage == [i \in Ids |-> NoPayload]

Range(seq) == {seq[i] : i \in 1..Len(seq)}

Put(map, k, v) == [x \in DOMAIN map \cup {k} |-> IF x = k THEN v ELSE map[x]]

\* stage.payload.insert(id, payload)
Insert(payloads, id, payload) ==
    [i \in DOMAIN payloads |-> IF i = id THEN payload ELSE payloads[i]]

\* ------------------------------------------------------------- pipeline
\* VideoPipeline::default()
VideoPipeline == [id_counter |-> 0, stages |-> <<>>, stage_types |-> <<>>]

Self == [id_counter |-> id_counter, stages |-> stages, stage_types |-> stage_types]

\* Ok(value) and Err(message) with the pipeline the call leaves
Return(self, ret) == [self |-> self, ok |-> TRUE, ret |-> ret, err |-> ""]

Bail(self, msg) == [self |-> self, ok |-> FALSE, ret |-> 0, err |-> msg]

get_stage_type(self, name) ==
    IF name \in DOMAIN self.stage_types THEN self.stage_types[name] ELSE "None"

has_stage(self, name) == name \in DOMAIN self.stages

\* faulty variant: no check for an existing name
add_stage_overwrite(self, name, stage_type) ==
    Return([self EXCEPT !.stages = Put(@, name, VideoPipelineStage),
                        !.stage_types = Put(@, name, stage_type)], 0)

add_stage(self, name, stage_type) ==
    IF has_stage(self, name)
    THEN Bail(self, "Stage already exists")
    ELSE Return([self EXCEPT !.stages = Put(@, name, VideoPipelineStage),
                             !.stage_types = Put(@, name, stage_type)], 0)

\* faulty variant: the update is put at the head of the pending list
add_frame_update_prepend(self, stage, frame_id, update) ==
    IF ~has_stage(self, stage)
    THEN Bail(self, "Stage not found")
    ELSE IF self.stages[stage][frame_id].kind = "None"
    THEN Bail(self, "Frame not found in stage")
    ELSE IF self.stages[stage][frame_id].kind # "Frame"
    THEN Bail(self, "Frame update can only be added to a frame payload")
    ELSE Return([self EXCEPT !.stages[stage][frame_id].updates = <<update>> \o @], 0)

add_frame_update(self, stage, frame_id, update) ==
    IF ~has_stage(self, stage)
    THEN Bail(self, "Stage not found")
    ELSE IF self.stages[stage][frame_id].kind = "None"
    THEN Bail(self, "Frame not found in stage")
    ELSE IF self.stages[stage][frame_id].kind # "Frame"
    THEN Bail(self, "Frame update can only be added to a frame payload")
    ELSE Return([self EXCEPT !.stages[stage][frame_id].updates = Append(@, update)], 0)

add_batched_frame_update(self, stage, batch_id, frame_id, update) ==
    IF ~has_stage(self, stage)
    THEN Bail(self, "Stage not found")
    ELSE IF self.stages[stage][batch_id].kind = "None"
    THEN Bail(self, "Batch not found in stage")
    ELSE IF self.stages[stage][batch_id].kind # "Batch"
    THEN Bail(self, "Batch update can only be added to a batch payload")
    ELSE Return([self EXCEPT !.stages[stage][batch_id].updates =
                                    Append(@, <<frame_id, update>>)], 0)

\* faulty variant: the new id is returned but not stored in id_counter
add_frame_keeps_counter(self, stage, frame) ==
    IF get_stage_type(self, stage) = "Batch"
    THEN Bail(self, "Stage does not accept batched frames")
    ELSE LET counter == self.id_counter + 1
         IN IF ~has_stage(self, stage)
            THEN Bail(self, "Stage not found")
            ELSE Return([self EXCEPT !.stages[stage] =
                                        Insert(@, counter, FramePayload(frame, <<>>))],
                        counter)

add_frame(self, stage, frame) ==
    IF get_stage_type(self, stage) = "Batch"
    THEN Bail(self, "Stage does not accept batched frames")
    ELSE LET counter == self.id_counter + 1
         IN IF ~has_stage(self, stage)
            THEN Bail(self, "Stage not found")
            ELSE Return([self EXCEPT !.stages[stage] = Insert(@, counter, FramePayload(frame, <<>>)),
                                     !.id_counter = counter], counter)

\* faulty variant: no check of the stage type
add_batch_unchecked(self, stage, batch) ==
    LET counter == self.id_counter + 1
    IN IF ~has_stage(self, stage)
       THEN Bail(self, "Stage not found")
       ELSE Return([self EXCEPT !.stages[stage] = Insert(@, counter, BatchPayload(batch, <<>>)),
                                !.id_counter = counter], counter)

add_batch(self, stage, batch) ==
    IF get_stage_type(self, stage) = "Frame"
    THEN Bail(self, "Stage does not accept independent frames")
    ELSE LET counter == self.id_counter + 1
         IN IF ~has_stage(self, stage)
            THEN Bail(self, "Stage not found")
            ELSE Return([self EXCEPT !.stages[stage] = Insert(@, counter, BatchPayload(batch, <<>>)),
                                     !.id_counter = counter], counter)

\* faulty variant: an id that is not in the stage is not an error
del_silent(self, stage, id) ==
    IF ~has_stage(self, stage)
    THEN Bail(self, "Stage not found")
    ELSE Return([self EXCEPT !.stages[stage][id] = NoPayload], 0)

del(self, stage, id) ==
    IF ~has_stage(self, stage)
    THEN Bail(self, "Stage not found")
    ELSE IF self.stages[stage][id].kind = "None"
    THEN Bail(self, "Object not found in stage")
    ELSE Return([self EXCEPT !.stages[stage][id] = NoPayload], 0)

get_independent_frame(self, stage, frame_id) ==
    IF ~has_stage(self, stage)
    THEN Bail(self, "Stage not found")
    ELSE IF self.stages[stage][frame_id].kind = "None"
    THEN Bail(self, "Frame not found in stage")
    ELSE IF self.stages[stage][frame_id].kind # "Frame"
    THEN Bail(self, "Payload must be a frame")
    ELSE Return(self, self.stages[stage][frame_id].frame)

get_batch(self, stage, batch_id) ==
    IF ~has_stage(self, stage)
    THEN Bail(self, "Stage not found")
    ELSE IF self.stages[stage][batch_id].kind = "None"
    THEN Bail(self, "Batch not found in stage")
    ELSE IF self.stages[stage][batch_id].kind # "Batch"
    THEN Bail(self, "Payload must be a batch")
    ELSE Return(self, self.stages[stage][batch_id].batch)

get_batched_frame(self, stage, batch_id, frame_id) ==
    LET found == get_batch(self, stage, batch_id)
    IN IF ~found.ok THEN found
       ELSE IF BatchGet(found.ret, frame_id) = NoFrame
       THEN Bail(self, "Frame not found in batch")
       ELSE Return(self, BatchGet(found.ret, frame_id))

\* the loop of apply_updates over a Frame payload, after n updates
RECURSIVE UpdateFrame(_, _, _)
UpdateFrame(frame, updates, n) ==
    IF n = 0 THEN frame
    ELSE FrameUpdate(UpdateFrame(frame, updates, n - 1), updates[n])

\* the loop of apply_updates over a Batch payload, after n updates: an update
\* whose frame_id is not in the batch is passed over
RECURSIVE UpdateBatch(_, _, _)
UpdateBatch(batch, updates, n) ==
    IF n = 0 THEN batch
    ELSE LET prev == UpdateBatch(batch, updates, n - 1)
             frame_id == updates[n][1]
         IN IF BatchGet(prev, frame_id) # NoFrame
            THEN BatchAdd(prev, frame_id, FrameUpdate(BatchGet(prev, frame_id), updates[n][2]))
            ELSE prev

\* the failing frame.update calls apply_updates can meet on a payload: 0 for
\* none, k for the k-th drained update (one that reaches a frame)
UpdateFailures(payload) ==
    {0} \cup {k \in 1..Len(payload.updates) :
                payload.kind = "Batch" =>
                    BatchGet(payload.batch, payload.updates[k][1]) # NoFrame}

\* faulty variant: the updates are iterated, not drained
apply_updates_keep(self, stage, id, failed) ==
    IF ~has_stage(self, stage)
    THEN Bail(self, "Stage not found")
    ELSE IF self.stages[stage][id].kind = "None"
    THEN Bail(self, "Payload not found in stage")
    ELSE LET payload == self.stages[stage][id]
             done == IF failed = 0 THEN Len(payload.updates) ELSE failed - 1
             updated ==
                IF payload.kind = "Frame"
                THEN FramePayload(UpdateFrame(payload.frame, payload.updates, done),
                                  payload.updates)
                ELSE BatchPayload(UpdateBatch(payload.batch, payload.updates, done),
                                  payload.updates)
             after == [self EXCEPT !.stages[stage][id] = updated]
         IN IF failed = 0 THEN Return(after, 0) ELSE Bail(after, "Update failed")

\* faulty variant: a failure keeps the updates queued after the failed one
apply_updates_requeue(self, stage, id, failed) ==
    IF ~has_stage(self, stage)
    THEN Bail(self, "Stage not found")
    ELSE IF self.stages[stage][id].kind = "None"
    THEN Bail(self, "Payload not found in stage")
    ELSE LET payload == self.stages[stage][id]
             done == IF failed = 0 THEN Len(payload.updates) ELSE failed - 1
             left == IF failed = 0 THEN <<>>
                     ELSE SubSeq(payload.updates, failed + 1, Len(payload.updates))
             drained ==
                IF payload.kind = "Frame"
                THEN FramePayload(UpdateFrame(payload.frame, payload.updates, done), left)
                ELSE BatchPayload(UpdateBatch(payload.batch, payload.updates, done), left)
             after == [self EXCEPT !.stages[stage][id] = drained]
         IN IF failed = 0 THEN Return(after, 0) ELSE Bail(after, "Update failed")

\* failed = 0: every frame.update returns Ok.  failed = k: the k-th returns
\* an error; `?` returns it and the drain drops the updates after it.
apply_updates(self, stage, id, failed) ==
    IF ~has_stage(self, stage)
    THEN Bail(self, "Stage not found")
    ELSE IF self.stages[stage][id].kind = "None"
    THEN Bail(self, "Payload not found in stage")
    ELSE LET payload == self.stages[stage][id]
             done == IF failed = 0 THEN Len(payload.updates) ELSE failed - 1
             drained ==
                IF payload.kind = "Frame"
                THEN FramePayload(UpdateFrame(payload.frame, payload.updates, done), <<>>)
                ELSE BatchPayload(UpdateBatch(payload.batch, payload.updates, done), <<>>)
             after == [self EXCEPT !.stages[stage][id] = drained]
         IN IF failed = 0 THEN Return(after, 0) ELSE Bail(after, "Update failed")

\* the removal loop of move_as_is after n ids: it stops at the first id that
\* is not in the source stage
RECURSIVE RemoveObjects(_, _, _)
RemoveObjects(payload, object_ids, n) ==
    IF n = 0 THEN [payload |-> payload, removed_objects |-> <<>>, ok |-> TRUE]
    ELSE LET prev == RemoveObjects(payload, object_ids, n - 1)
             id == object_ids[n]
         IN IF ~prev.ok THEN prev
            ELSE IF prev.payload[id].kind # "None"
            THEN [payload |-> [prev.payload EXCEPT ![id] = NoPayload],
                  removed_objects |-> Append(prev.removed_objects, <<id, prev.payload[id]>>),
                  ok |-> TRUE]
            ELSE [prev EXCEPT !.ok = FALSE]

RECURSIVE InsertObjects(_, _, _)
InsertObjects(payload, removed_objects, n) ==
    IF n = 0 THEN payload
    ELSE Insert(InsertObjects(payload, removed_objects, n - 1),
                removed_objects[n][1], removed_objects[n][2])

\* faulty variant: no check that the two stages have the same type
move_as_is_untyped(self, source_stage, dest_stage, object_ids) ==
    IF ~has_stage(self, source_stage)
    THEN Bail(self, "Source stage not found")
    ELSE IF ~has_stage(self, dest_stage)
    THEN Bail(self, "Destination stage not found")
    ELSE LET r == RemoveObjects(self.stages[source_stage], object_ids, Len(object_ids))
             removed == [self EXCEPT !.stages[source_stage] = r.payload]
         IN IF ~r.ok
            THEN Bail(removed, "Object not found in source stage")
            ELSE Return([removed EXCEPT !.stages[dest_stage] =
                            InsertObjects(@, r.removed_objects, Len(r.removed_objects))], 0)

move_as_is(self, source_stage, dest_stage, object_ids) ==
    IF get_stage_type(self, source_stage) # get_stage_type(self, dest_stage)
    THEN Bail(self, "The source stage type must be the same as the destination stage type")
    ELSE IF ~has_stage(self, source_stage)
    THEN Bail(self, "Source stage not found")
    ELSE IF ~has_stage(self, dest_stage)
    THEN Bail(self, "Destination stage not found")
    ELSE LET r == RemoveObjects(self.stages[source_stage], object_ids, Len(object_ids))
             removed == [self EXCEPT !.stages[source_stage] = r.payload]
         IN IF ~r.ok
            THEN Bail(removed, "Object not found in source stage")
            ELSE Return([removed EXCEPT !.stages[dest_stage] =
                            InsertObjects(@, r.removed_objects, Len(r.removed_objects))], 0)

\* faulty variant: the updates of a frame are queued last first
TagUpdatesReversed(id, updates) ==
    [i \in 1..Len(updates) |-> <<id, updates[Len(updates) + 1 - i]>>]

TagUpdates(id, updates) == [i \in 1..Len(updates) |-> <<id, updates[i]>>]

\* the loop of move_and_pack_frames after n ids: an id that is not in the
\* source stage is passed over
RECURSIVE PackFrames(_, _, _)
PackFrames(payload, frame_ids, n) ==
    IF n = 0
    THEN [payload |-> payload, batch |-> VideoFrameBatch, batch_updates |-> <<>>, ok |-> TRUE]
    ELSE LET prev == PackFrames(payload, frame_ids, n - 1)
             id == frame_ids[n]
             found == prev.payload[id]
         IN IF ~prev.ok \/ found.kind = "None" THEN prev
            ELSE IF found.kind = "Frame"
            THEN [payload |-> [prev.payload EXCEPT ![id] = NoPayload],
                  batch |-> BatchAdd(prev.batch, id, found.frame),
                  batch_updates |-> prev.batch_updates \o TagUpdates(id, found.updates),
                  ok |-> TRUE]
            ELSE [prev EXCEPT !.payload = [prev.payload EXCEPT ![id] = NoPayload],
                              !.ok = FALSE]

\* faulty variant: the stage types are not looked at
move_and_pack_frames_unchecked(self, source_stage, dest_stage, frame_ids) ==
    LET batch_id == self.id_counter + 1
    IN IF ~has_stage(self, source_stage)
       THEN Bail(self, "Source stage not found")
       ELSE IF ~has_stage(self, dest_stage)
       THEN Bail(self, "Destination stage not found")
       ELSE LET r == PackFrames(self.stages[source_stage], frame_ids, Len(frame_ids))
                removed == [self EXCEPT !.stages[source_stage] = r.payload]
            IN IF ~r.ok
               THEN Bail(removed, "Source stage must contain independent frames")
               ELSE Return([removed EXCEPT
                               !.stages[dest_stage] =
                                   Insert(@, batch_id,
                                          BatchPayload(r.batch, r.batch_updates)),
                               !.id_counter = batch_id], batch_id)

\* faulty variant: an id that is not in the source stage is an error, as in
\* move_as_is
move_and_pack_frames_strict(self, source_stage, dest_stage, frame_ids) ==
    IF get_stage_type(self, source_stage) = "Batch" \/ get_stage_type(self, dest_stage) = "Frame"
    THEN Bail(self, "Source stage must contain independent frames and destination stage must contain batched frames")
    ELSE LET batch_id == self.id_counter + 1
         IN IF ~has_stage(self, source_stage)
            THEN Bail(self, "Source stage not found")
            ELSE IF ~has_stage(self, dest_stage)
            THEN Bail(self, "Destination stage not found")
            ELSE LET r == PackFrames(self.stages[source_stage], frame_ids, Len(frame_ids))
                     removed == [self EXCEPT !.stages[source_stage] = r.payload]
                 IN IF ~r.ok
                    THEN Bail(removed, "Source stage must contain independent frames")
                    ELSE IF \E k \in 1..Len(frame_ids) :
                               self.stages[source_stage][frame_ids[k]].kind = "None"
                    THEN Bail(removed, "Object not found in source stage")
                    ELSE Return([removed EXCEPT
                                    !.stages[dest_stage] =
                                        Insert(@, batch_id,
                                               BatchPayload(r.batch, r.batch_updates)),
                                    !.id_counter = batch_id], batch_id)

move_and_pack_frames(self, source_stage, dest_stage, frame_ids) ==
    IF get_stage_type(self, source_stage) = "Batch" \/ get_stage_type(self, dest_stage) = "Frame"
    THEN Bail(self, "Source stage must contain independent frames and destination stage must contain batched frames")
    ELSE LET batch_id == self.id_counter + 1
         IN IF ~has_stage(self, source_stage)
            THEN Bail(self, "Source stage not found")
            ELSE IF ~has_stage(self, dest_stage)
            THEN Bail(self, "Destination stage not found")
            ELSE LET r == PackFrames(self.stages[source_stage], frame_ids, Len(frame_ids))
                     removed == [self EXCEPT !.stages[source_stage] = r.payload]
                 IN IF ~r.ok
                    THEN Bail(removed, "Source stage must contain independent frames")
                    ELSE Return([removed EXCEPT
                                    !.stages[dest_stage] =
                                        Insert(@, batch_id,
                                               BatchPayload(r.batch, r.batch_updates)),
                                    !.id_counter = batch_id], batch_id)

\* the first loop of move_and_unpack_batch: every frame of the batch becomes a
\* Frame payload of the destination under its frame id
UnpackFrames(payload, batch) ==
    [i \in Ids |-> IF i \in BatchIds(batch) THEN FramePayload(batch[i], <<>>) ELSE payload[i]]

\* the second loop after n updates: it stops at the first update whose frame
\* id has no Frame payload in the destination
RECURSIVE DispatchUpdates(_, _, _)
DispatchUpdates(payload, updates, n) ==
    IF n = 0 THEN [payload |-> payload, err |-> ""]
    ELSE LET prev == DispatchUpdates(payload, updates, n - 1)
             frame_id == updates[n][1]
         IN IF prev.err # "" THEN prev
            ELSE IF prev.payload[frame_id].kind = "None"
            THEN [prev EXCEPT !.err = "Frame not found in destination stage"]
            ELSE IF prev.payload[frame_id].kind = "Frame"
            THEN [prev EXCEPT !.payload[frame_id].updates = Append(@, updates[n][2])]
            ELSE [prev EXCEPT !.err = "Destination stage must contain independent frames"]

move_and_unpack_batch(self, source_stage, dest_stage, batch_id) ==
    IF get_stage_type(self, source_stage) = "Frame" \/ get_stage_type(self, dest_stage) = "Batch"
    THEN Bail(self, "Source stage must contain batched frames and destination stage must contain independent frames")
    ELSE IF ~has_stage(self, source_stage)
    THEN Bail(self, "Source stage not found")
    ELSE IF ~has_stage(self, dest_stage)
    THEN Bail(self, "Destination stage not found")
    ELSE LET found == self.stages[source_stage][batch_id]
             removed == [self EXCEPT !.stages[source_stage][batch_id] = NoPayload]
         IN IF found.kind = "None"
            THEN Bail(self, "Batch not found in source stage")
            ELSE IF found.kind # "Batch"
            THEN Bail(removed, "Source stage must contain batch")
            ELSE LET r == DispatchUpdates(
                            UnpackFrames(removed.stages[dest_stage], found.batch),
                            found.updates, Len(found.updates))
                     unpacked == [removed EXCEPT !.stages[dest_stage] = r.payload]
                 IN IF r.err # "" THEN Bail(unpacked, r.err) ELSE Return(unpacked, 0)

\* ------------------------------------------------- what a caller can pass
\* A frame or an update is moved into the call that takes it, so a caller
\* passes one the pipeline does not hold: the first such, the names being
\* interchangeable.
Payloads == {stages[n][i] : n \in DOMAIN stages, i \in Ids}

HeldFrames ==
    UNION {{p.frame.tag} \cup {p.batch[i].tag : i \in Ids} : p \in Payloads}

PendingUpdates(payload) ==
    IF payload.kind = "Batch" THEN {e[2] : e \in Range(payload.updates)}
    ELSE Range(payload.updates)

HeldUpdates ==
    UNION {PendingUpdates(p) \cup Range(p.frame.attrs)
                \cup UNION {Range(p.batch[i].attrs) : i \in Ids} : p \in Payloads}

FirstFree(tags, held) ==
    LET free == {i \in 1..Len(tags) : tags[i] \notin held}
    IN IF free = {} THEN {} ELSE {tags[CHOOSE i \in free : \A j \in free : i <= j]}

CallerFrames == {NewFrame(t) : t \in FirstFree(FrameTags, HeldFrames)}

CallerUpdates == FirstFree(UpdateTags, HeldUpdates)

\* batches a caller builds with VideoFrameBatch::new() and add()
CallerBatches ==
    {VideoFrameBatch} \cup {BatchAdd(VideoFrameBatch, 1, f) : f \in CallerFrames}

\* id lists a caller passes to the move operations
IdLists == {<<>>} \cup {<<a>> : a \in Ids} \cup {<<a, b>> : a \in Ids, b \in Ids}

\* move_and_pack_frames reads its id list only after its stage checks; a
\* call that fails them is made with the empty list
ListsIf(checked) == IF checked THEN IdLists ELSE {<<>>}

\* the frame.update failures a call of apply_updates can meet
FailuresAt(stage, id) ==
    IF has_stage(Self, stage) THEN UpdateFailures(stages[stage][id]) ELSE {0}

\* ===================================================== PersistentQueue
\* savant_pq/src/lib.rs: a FIFO of byte buffers in a RocksDB database.  The
\* store's own calls (open, get, write) return Ok in PQSpec; PQFaultSpec adds
\* the writes that the database refuses.
U128_BYTE_LEN == 16
MAX_ALLOWED_INDEX == 4      \* the ring size of the test build
MaxElements == 5            \* max_elements is 1..MaxElements
MaxPushes == 7              \* at most this many pushes return Ok
WriteErrsUntil == 2         \* writes are refused before this many pushes returned Ok
Values == {<<1>>, <<2>>}    \* the byte buffers a caller pushes

\* Option<T>
None == <<>>
Some(v) == <<v>>

\* u128::to_le_bytes, the low byte first
RECURSIVE to_le_bytes(_, _)
to_le_bytes(n, byte_len) ==
    IF byte_len = 0 THEN <<>>
    ELSE <<n % 256>> \o to_le_bytes(n \div 256, byte_len - 1)

\* u128::from_le_bytes
RECURSIVE from_le_bytes(_)
from_le_bytes(buf) ==
    IF buf = <<>> THEN 0 ELSE buf[1] + 256 * from_le_bytes(Tail(buf))

index_to_key(index) == to_le_bytes(index, U128_BYTE_LEN)

\* index_to_key(WRITE_INDEX_CELL), WRITE_INDEX_CELL = u128::MAX
WRITE_INDEX_CELL == [k \in 1..U128_BYTE_LEN |-> 255]

\* index_to_key(READ_INDEX_CELL), READ_INDEX_CELL = u128::MAX - 1
READ_INDEX_CELL == [k \in 1..U128_BYTE_LEN |-> IF k = 1 THEN 254 ELSE 255]

\* a database that create_if_missing has just created
EmptyDB == <<>>

\* DB::get
DbGet(db, key) == IF key \in DOMAIN db THEN Some(db[key]) ELSE None

\* WriteBatch::put and WriteBatch::delete
BatchPut(key, value) == [op |-> "put", key |-> key, value |-> value]
BatchDelete(key) == [op |-> "delete", key |-> key, value |-> <<>>]

\* DB::write: the operations of the batch, in order, in one atomic write
RECURSIVE DbWrite(_, _, _)
DbWrite(db, batch, n) ==
    IF n = 0 THEN db
    ELSE LET prev == DbWrite(db, batch, n - 1)
             e == batch[n]
         IN IF e.op = "put" THEN Put(prev, e.key, e.value)
            ELSE [k \in DOMAIN prev \ {e.key} |-> prev[k]]

NoQueue == [open |-> FALSE, db |-> EmptyDB, write_index |-> 0, read_index |-> 0,
            max_elements |-> 0]

\* PersistentQueue::new on the database `db` found at the path
new(db, max_elements) ==
    LET write_index_opt == DbGet(db, WRITE_INDEX_CELL)
        write_index == IF write_index_opt = None THEN 0
                       ELSE from_le_bytes(write_index_opt[1])
        read_index_opt == DbGet(db, READ_INDEX_CELL)
        read_index == IF read_index_opt = None THEN 0
                      ELSE from_le_bytes(read_index_opt[1])
    IN [open |-> TRUE, db |-> db, write_index |-> write_index,
        read_index |-> read_index, max_elements |-> max_elements]

len(self) ==
    IF self.write_index >= self.read_index
    THEN self.write_index - self.read_index
    ELSE MAX_ALLOWED_INDEX - self.read_index + self.write_index

is_empty(self) == self.write_index = self.read_index

\* faulty variant: the index does not wrap around
advance_unwrapped(index) == index + 1

\* the index after `index` on the ring
Advance(index) == IF index + 1 = MAX_ALLOWED_INDEX THEN 0 ELSE index + 1

\* faulty variant: the batch does not save the new write index
push_index_unsaved(self, value) ==
    IF self.write_index >= self.read_index + self.max_elements
    THEN Bail(self, "Queue is full")
    ELSE LET write_index == Advance(self.write_index)
             batch == <<BatchPut(index_to_key(self.write_index), value)>>
         IN Return([self EXCEPT !.write_index = write_index,
                                !.db = DbWrite(@, batch, Len(batch))], None)

push(self, value) ==
    IF self.write_index >= self.read_index + self.max_elements
    THEN Bail(self, "Queue is full")
    ELSE LET write_index == Advance(self.write_index)
             batch == <<BatchPut(index_to_key(self.write_index), value),
                        BatchPut(WRITE_INDEX_CELL,
                                 to_le_bytes(write_index, U128_BYTE_LEN))>>
         IN Return([self EXCEPT !.write_index = write_index,
                                !.db = DbWrite(@, batch, Len(batch))], None)

\* faulty variant: the data cell is not deleted
pop_keeps_cell(self) ==
    IF self.read_index = self.write_index
    THEN Return(self, None)
    ELSE LET key == index_to_key(self.read_index)
             value == DbGet(self.db, key)
             read_index == Advance(self.read_index)
             batch == <<BatchPut(READ_INDEX_CELL,
                                 to_le_bytes(read_index, U128_BYTE_LEN))>>
         IN IF value # None
            THEN Return([self EXCEPT !.read_index = read_index,
                                     !.db = DbWrite(@, batch, Len(batch))], value)
            ELSE Return(self, None)

pop(self) ==
    IF self.read_index = self.write_index
    THEN Return(self, None)
    ELSE LET key == index_to_key(self.read_index)
             value == DbGet(self.db, key)
             read_index == Advance(self.read_index)
             batch == <<BatchDelete(key),
                        BatchPut(READ_INDEX_CELL,
                                 to_le_bytes(read_index, U128_BYTE_LEN))>>
         IN IF value # None
            THEN Return([self EXCEPT !.read_index = read_index,
                                     !.db = DbWrite(@, batch, Len(batch))], value)
            ELSE Return(self, None)

\* PersistentQueue::push when DB::write returns Err: `?` returns the error
\* after write_index was advanced, and no operation of the batch is applied
push_write_err(self, value) ==
    IF self.write_index >= self.read_index + self.max_elements
    THEN Bail(self, "Queue is full")
    ELSE LET write_index == Advance(self.write_index)
         IN Bail([self EXCEPT !.write_index = write_index], "IO error")

\* PersistentQueue::pop when DB::write returns Err: `?` returns the error
\* after read_index was advanced, and no operation of the batch is applied
pop_write_err(self) ==
    IF self.read_index = self.write_index
    THEN Return(self, None)
    ELSE LET key == index_to_key(self.read_index)
             value == DbGet(self.db, key)
             read_index == Advance(self.read_index)
         IN IF value # None
            THEN Bail([self EXCEPT !.read_index = read_index], "IO error")
            ELSE Return(self, None)

\* ================================================ EtcdParameterStorage
\* etcd_dynamic_state/src/parameter_storage.rs: a local copy of keys of an
\* etcd cluster.  A worker task drains the pending operations and applies
\* the watch notifications; caller threads read the copy and queue
\* operations.
BLOCKING_WAIT_SLEEP_DELAY_MS == 10
MaxInFlight == 2    \* operations pending or taken, and notifications not applied
\* keys are strings, here sequences of characters
ParamKeys == {<<"a">>, <<"a", "b">>}
ParamPrefixes == {<<"a">>}
Timeouts == {0, 20}

\* ---- crc32fast::hash: CRC-32 (IEEE), a word being its 32 bits, the low
\* bit first
WordBits == 32
RECURSIVE Bits(_, _)
Bits(n, width) ==
    IF width = 0 THEN <<>> ELSE <<n % 2>> \o Bits(n \div 2, width - 1)
Xor(a, b) == [i \in 1..WordBits |-> (a[i] + b[i]) % 2]
ShiftRight(a) == [i \in 1..WordBits |-> IF i < WordBits THEN a[i + 1] ELSE 0]
AllOnes == [i \in 1..WordBits |-> 1]
\* the reflected polynomial 0xEDB88320, its hexadecimal digits low first
Polynomial ==
    LET digits == <<0, 2, 3, 8, 8, 11, 13, 14>>
    IN [i \in 1..WordBits |-> Bits(digits[((i - 1) \div 4) + 1], 4)[((i - 1) % 4) + 1]]

RECURSIVE CrcShift(_, _)
CrcShift(crc, n) ==
    IF n = 0 THEN crc
    ELSE LET prev == CrcShift(crc, n - 1)
         IN IF prev[1] = 1 THEN Xor(ShiftRight(prev), Polynomial) ELSE ShiftRight(prev)

RECURSIVE CrcBytes(_, _)
CrcBytes(value, n) ==
    IF n = 0 THEN AllOnes
    ELSE CrcShift(Xor(CrcBytes(value, n - 1), Bits(value[n], WordBits)), 8)

\* the checksums of the values of the model, computed once
Checksums == [value \in Values |-> Xor(CrcBytes(value, Len(value)), AllOnes)]

crc32(value) ==
    IF value \in DOMAIN Checksums THEN Checksums[value]
    ELSE Xor(CrcBytes(value, Len(value)), AllOnes)

\* ---- Operation
OpGet(spec) == [op |-> "Get", key |-> spec, value |-> <<>>]
OpSet(key, value) == [op |-> "Set", key |-> key, value |-> value]
OpDelKey(key) == [op |-> "DelKey", key |-> key, value |-> <<>>]
OpDelPrefix(prefix) == [op |-> "DelPrefix", key |-> prefix, value |-> <<>>]

\* str::starts_with
starts_with(key, prefix) ==
    Len(prefix) <= Len(key) /\ SubSeq(key, 1, Len(prefix)) = prefix

MapRemove(map, keys) == [k \in DOMAIN map \ keys |-> map[k]]

\* HashMap::get(key).cloned()
MapGet(map, key) == IF key \in DOMAIN map THEN Some(map[key]) ELSE None

\* ---- the storage as the caller holds it
Storage == [parameters |-> parameters, ops |-> ops, handle |-> handle, client |-> client]

\* EtcdParameterStorage::with_client
with_client ==
    [parameters |-> <<>>, ops |-> <<>>, handle |-> "None", client |-> TRUE]

\* a call that panics: the storage is as it was
Panic(self, msg) == [self |-> self, ok |-> FALSE, ret |-> None, err |-> msg]

\* run: init takes the client, the task is spawned with it and its handle
\* is kept; the task has not finished when run returns
run(self) ==
    Return([self EXCEPT !.client = FALSE, !.handle = "Running"], None)

is_active(self) == self.handle = "Running"

is_present(self, key) == MapGet(self.parameters, key) # None

stop(self) ==
    IF ~is_active(self) THEN Panic(self, "EtcdParameterStorage is not active")
    ELSE Return([self EXCEPT !.handle = "None"], None)

get_data_checksum(self, key) ==
    IF ~is_active(self) THEN Panic(self, "EtcdParameterStorage is not active")
    ELSE LET res == MapGet(self.parameters, key)
         IN Return(self, IF res = None THEN None ELSE Some(res[1][1]))

order_data_update(self, spec) ==
    IF ~is_active(self) THEN Panic(self, "EtcdParameterStorage is not active")
    ELSE Return([self EXCEPT !.ops = Append(@, OpGet(spec))], None)

get_data(self, key) ==
    IF ~is_active(self) THEN Panic(self, "EtcdParameterStorage is not active")
    ELSE Return(self, MapGet(self.parameters, key))

\* faulty variant: the push replaces the pending operations
set_overwrites(self, key, value) == Return([self EXCEPT !.ops = <<OpSet(key, value)>>], None)

set(self, key, value) == Return([self EXCEPT !.ops = Append(@, OpSet(key, value))], None)

\* Watcher::notify with a DelPrefix that removes the key equal to the prefix
notify_prefix_as_key(params, res) ==
    IF res.op = "Set" THEN Put(params, res.key, <<crc32(res.value), res.value>>)
    ELSE MapRemove(params, {res.key})

\* faulty variant: a Set stores the checksum of the empty value
notify_crc_of_nothing(params, res) ==
    IF res.op = "Set" THEN Put(params, res.key, <<crc32(<<>>), res.value>>)
    ELSE IF res.op = "DelKey" THEN MapRemove(params, {res.key})
    ELSE MapRemove(params, {k \in DOMAIN params : starts_with(k, res.key)})

\* Watcher::notify
notify(params, res) ==
    IF res.op = "Set" THEN Put(params, res.key, <<crc32(res.value), res.value>>)
    ELSE IF res.op = "DelKey" THEN MapRemove(params, {res.key})
    ELSE MapRemove(params, {k \in DOMAIN params : starts_with(k, res.key)})

\* faulty variant: the other operations come out last first
RECURSIVE partition_reversed(_, _)
partition_reversed(list, n) ==
    IF n = 0 THEN [get_ops |-> <<>>, other_ops |-> <<>>]
    ELSE LET prev == partition_reversed(list, n - 1)
         IN IF list[n].op = "Get"
            THEN [prev EXCEPT !.get_ops = Append(@, list[n])]
            ELSE [prev EXCEPT !.other_ops = <<list[n]>> \o @]

\* Vec::partition
RECURSIVE Partition(_, _)
Partition(list, n) ==
    IF n = 0 THEN [get_ops |-> <<>>, other_ops |-> <<>>]
    ELSE LET prev == Partition(list, n - 1)
         IN IF list[n].op = "Get"
            THEN [prev EXCEPT !.get_ops = Append(@, list[n])]
            ELSE [prev EXCEPT !.other_ops = Append(@, list[n])]

\* EtcdClient::fetch_vars of a VarPathSpec::SingleVar on the cluster `kv`
fetch_vars(kv, spec) == IF spec \in DOMAIN kv THEN <<<<spec, kv[spec]>>>> ELSE <<>>

\* faulty variant: the result of the fetch is not inserted
insert_fetched_nothing(params, res, n) == params

\* the insert loop of KVOperator::ops over the result of one fetch
RECURSIVE InsertFetched(_, _, _)
InsertFetched(params, res, n) ==
    IF n = 0 THEN params
    ELSE Put(InsertFetched(params, res, n - 1), res[n][1],
             <<crc32(res[n][2]), res[n][2]>>)

\* the cluster after an operation: its keys are the keys of the copy
ApplyRemote(kv, op) ==
    IF op.op = "Set" THEN Put(kv, op.key, op.value)
    ELSE IF op.op = "DelKey" THEN MapRemove(kv, {op.key})
    ELSE MapRemove(kv, {k \in DOMAIN kv : starts_with(k, op.key)})

RECURSIVE ApplyAll(_, _, _)
ApplyAll(kv, list, n) ==
    IF n = 0 THEN kv ELSE ApplyRemote(ApplyAll(kv, list, n - 1), list[n])

\* a debug build panics on an overflow of u64, a release build wraps
Builds == {"debug", "release"}

\* a u64 that has wrapped below zero: 2^64 minus a few, which no run of the
\* loop brings down to the delay again
Wrapped == -1

\* timeout_ms - BLOCKING_WAIT_SLEEP_DELAY_MS in u64; below zero a debug
\* build panics
sub_delay(timeout_ms, build) ==
    IF timeout_ms = Wrapped THEN [overflow |-> FALSE, value |-> Wrapped]
    ELSE IF timeout_ms >= BLOCKING_WAIT_SLEEP_DELAY_MS
    THEN [overflow |-> FALSE, value |-> timeout_ms - BLOCKING_WAIT_SLEEP_DELAY_MS]
    ELSE [overflow |-> build = "debug", value |-> Wrapped]

\* one turn of the loop of blocking_wait_key: the loop test, is_active,
\* is_present, the sleep and the decrement
blocking_wait_key_turn(self, key, timeout_ms, build) ==
    LET left == sub_delay(timeout_ms, build)
    IN IF left.overflow
       THEN [pc |-> "panic", timeout_ms |-> timeout_ms, ret |-> FALSE]
       ELSE IF left.value = 0
       THEN [pc |-> "returned", timeout_ms |-> timeout_ms, ret |-> FALSE]
       ELSE IF ~is_active(self)
       THEN [pc |-> "panic", timeout_ms |-> timeout_ms, ret |-> FALSE]
       ELSE IF ~is_present(self, key)
       THEN [pc |-> "polling", timeout_ms |-> left.value, ret |-> FALSE]
       ELSE [pc |-> "returned", timeout_ms |-> timeout_ms, ret |-> TRUE]

\* no task: never spawned, aborted or ended
NoWorker == [pc |-> "none", get_ops |-> <<>>, other_ops |-> <<>>, client |-> FALSE]

\* the task as rt.spawn leaves it, with the client that init took, if any
Spawned(has_client) == [NoWorker EXCEPT !.pc = "spawned", !.client = has_client]

\* the worker between two calls of KVOperator::ops
WorkerIdle == [NoWorker EXCEPT !.pc = "idle", !.client = TRUE]

\* the calling thread before its order_data_update(key); then it is
\* "ordered", "polling" in blocking_wait_key(key, timeout_ms), and
\* "returned" with what blocking_wait_key returned
CallerIdle == [pc |-> "idle", key |-> <<>>, timeout_ms |-> 0, ret |-> FALSE]

\* the operations pending or taken by the worker and the notifications sent
InFlight == Len(ops) + Len(worker.get_ops) + Len(worker.other_ops) + Len(watch)

\* ======================================================== match queries
\* match_query.rs: the expressions, the query AST, its evaluation, its JSON
\* form and the collection operators; the registry of plugin functions is
\* the one the UserDefinedObjectPredicate variant uses.
MaxInt == 2         \* thresholds and tested integers are -MaxInt..MaxInt
MaxFrames == 2      \* the frame ids of a batch of objects are 1..MaxFrames

Ints == (0 - MaxInt)..MaxInt
FrameIds == 1..MaxFrames

\* ---- f64: a finite value, the positive infinity or NaN
Finite(n) == [class |-> "finite", n |-> n]

\* the finite value p / q, q > 0: a whole value is the Finite of it
Fraction(p, q) ==
    IF p % q = 0 THEN Finite(p \div q) ELSE [class |-> "finite", n |-> p, d |-> q]

\* the denominator of a finite value
den(a) == IF "d" \in DOMAIN a THEN a.d ELSE 1
NaN == [class |-> "nan", n |-> 0]
Infinity == [class |-> "inf", n |-> 0]
Floats == {Finite(n) : n \in 0..1} \cup {NaN, Infinity}

\* == and < of f64: NaN equals nothing and is below or above nothing
float_eq(a, b) ==
    /\ a.class # "nan" /\ b.class # "nan"
    /\ a.class = b.class
    /\ a.class = "finite" => a.n * den(b) = b.n * den(a)

float_lt(a, b) ==
    \/ a.class = "finite" /\ b.class = "finite" /\ a.n * den(b) < b.n * den(a)
    \/ a.class = "finite" /\ b.class = "inf"

\* * and / of f64 on values that are not negative
float_mul(a, b) ==
    CASE a.class = "nan" \/ b.class = "nan" -> NaN
      [] a.class = "finite" /\ b.class = "finite" -> Fraction(a.n * b.n, den(a) * den(b))
      [] a.class = "inf" /\ b.class = "inf" -> Infinity
      [] OTHER -> IF (a.class = "finite" /\ a.n = 0) \/ (b.class = "finite" /\ b.n = 0)
                  THEN NaN ELSE Infinity

float_div(a, b) ==
    CASE a.class = "nan" \/ b.class = "nan" -> NaN
      [] a.class = "inf" /\ b.class = "inf" -> NaN
      [] a.class = "inf" -> Infinity
      [] b.class = "inf" -> Finite(0)
      [] b.n = 0 -> IF a.n = 0 THEN NaN ELSE Infinity
      [] OTHER -> Fraction(a.n * den(b), den(a) * b.n)

float_le(a, b) == float_lt(a, b) \/ float_eq(a, b)

\* ---- String: its characters
Strings == {<<"t">>, <<"t", "2">>, <<"2">>}

contains(o, x) ==
    \E i \in 0..(Len(o) - Len(x)) : SubSeq(o, i + 1, i + Len(x)) = x

ends_with(o, x) ==
    Len(x) <= Len(o) /\ SubSeq(o, Len(o) - Len(x) + 1, Len(o)) = x

\* ---- IntExpression, FloatExpression, StringExpression
IntExpression(op, x, y, v) == [op |-> op, x |-> x, y |-> y, v |-> v]
FloatExpression(op, x, y, v) == [op |-> op, fx |-> x, fy |-> y, fv |-> v]
StringExpression(op, x, v) == [op |-> op, sx |-> x, sv |-> v]

\* faulty variant: the bounds of Between are not part of the interval
int_execute_open(expr, o) ==
    CASE expr.op = "EQ" -> expr.x = o
      [] expr.op = "NE" -> expr.x # o
      [] expr.op = "LT" -> expr.x > o
      [] expr.op = "LE" -> expr.x >= o
      [] expr.op = "GT" -> expr.x < o
      [] expr.op = "GE" -> expr.x <= o
      [] expr.op = "Between" -> expr.x < o /\ o < expr.y
      [] expr.op = "OneOf" -> \E i \in 1..Len(expr.v) : expr.v[i] = o

\* IntExpression::execute
int_execute(expr, o) ==
    CASE expr.op = "EQ" -> expr.x = o
      [] expr.op = "NE" -> expr.x # o
      [] expr.op = "LT" -> expr.x > o
      [] expr.op = "LE" -> expr.x >= o
      [] expr.op = "GT" -> expr.x < o
      [] expr.op = "GE" -> expr.x <= o
      [] expr.op = "Between" -> expr.x <= o /\ o <= expr.y
      [] expr.op = "OneOf" -> \E i \in 1..Len(expr.v) : expr.v[i] = o

\* FloatExpression::execute
float_execute(expr, o) ==
    CASE expr.op = "EQ" -> float_eq(expr.fx, o)
      [] expr.op = "NE" -> ~float_eq(expr.fx, o)
      [] expr.op = "LT" -> float_lt(o, expr.fx)
      [] expr.op = "LE" -> float_le(o, expr.fx)
      [] expr.op = "GT" -> float_lt(expr.fx, o)
      [] expr.op = "GE" -> float_le(expr.fx, o)
      [] expr.op = "Between" -> float_le(expr.fx, o) /\ float_le(o, expr.fy)
      [] expr.op = "OneOf" -> \E i \in 1..Len(expr.fv) : float_eq(expr.fv[i], o)

\* StringExpression::execute
string_execute(expr, o) ==
    CASE expr.op = "EQ" -> expr.sx = o
      [] expr.op = "NE" -> expr.sx # o
      [] expr.op = "Contains" -> contains(o, expr.sx)
      [] expr.op = "NotContains" -> ~contains(o, expr.sx)
      [] expr.op = "StartsWith" -> starts_with(o, expr.sx)
      [] expr.op = "EndsWith" -> ends_with(o, expr.sx)
      [] expr.op = "OneOf" -> \E i \in 1..Len(expr.sv) : expr.sv[i] = o

\* ---- MatchQuery: a variant and what it holds
Unit(variant) == [variant |-> variant]
OfInt(variant, expr) == [variant |-> variant, int |-> expr]
OfFloat(variant, expr) == [variant |-> variant, float |-> expr]
OfString(variant, expr) == [variant |-> variant, str |-> expr]
OfText(variant, text) == [variant |-> variant, text |-> text]
OfList(variant, list) == [variant |-> variant, list |-> list]
Not(query) == [variant |-> "Not", q |-> query]
WithChildren(query, expr) == [variant |-> "WithChildren", q |-> query, int |-> expr]
AttributeDefined(creator, label) ==
    [variant |-> "AttributeDefined", creator |-> creator, label |-> label]
UserDefinedObjectPredicate(plugin, function) ==
    [variant |-> "UserDefinedObjectPredicate", plugin |-> plugin, function |-> function]
Metric(variant, other, metric_type, threshold_expr) ==
    [variant |-> variant, other |-> other, metric_type |-> metric_type,
     threshold_expr |-> threshold_expr]

\* ---- RBBox: the centre, the width, the height and the optional angle
RBBox(xc, yc, width, height, angle) ==
    [xc |-> xc, yc |-> yc, width |-> width, height |-> height, angle |-> angle]

\* the box whose centre, width and height are whole numbers
WholeBox(xc, yc, width, height, angle) ==
    RBBox(Finite(xc), Finite(yc), Finite(width), Finite(height), angle)

get_area(b) == float_mul(b.width, b.height)
get_width_to_height_ratio(b) == float_div(b.width, b.height)

Max(a, b) == IF a >= b THEN a ELSE b
Min(a, b) == IF a <= b THEN a ELSE b

\* twice the length two intervals share, each given by its centre and length
overlap(c1, l1, c2, l2) ==
    Max(0, Min(2 * c1 + l1, 2 * c2 + l2) - Max(2 * c1 - l1, 2 * c2 - l2))

\* four times the area two boxes share; the boxes of the model are not turned
intersection(a, b) ==
    overlap(a.xc.n, a.width.n, b.xc.n, b.width.n)
        * overlap(a.yc.n, a.height.n, b.yc.n, b.height.n)

\* RBBox::iou, ios and ioo: the shared area over the area of the union, of
\* the box itself and of the other box; an error when nothing is shared
iou(a, b) ==
    IF intersection(a, b) = 0 THEN None
    ELSE Some(Fraction(intersection(a, b),
                       4 * get_area(a).n + 4 * get_area(b).n - intersection(a, b)))

ios(a, b) ==
    IF intersection(a, b) = 0 THEN None
    ELSE Some(Fraction(intersection(a, b), 4 * get_area(a).n))

ioo(a, b) ==
    IF intersection(a, b) = 0 THEN None
    ELSE Some(Fraction(intersection(a, b), 4 * get_area(b).n))

unwrap_or(opt, default) == IF opt = None THEN default ELSE opt[1]

\* ---- the objects: a VideoObject and the frame its proxy belongs to
TrackInfo(id, bounding_box) == [id |-> id, bounding_box |-> bounding_box]

VideoObject(frame, id, creator, label, confidence, parent_id, track_info, bbox, attributes) ==
    [frame |-> frame, id |-> id, creator |-> creator, label |-> label,
     confidence |-> confidence, parent_id |-> parent_id, track_info |-> track_info,
     bbox |-> bbox, attributes |-> attributes]

\* the objects of the frames: in frame 1 objects 1 and 2 are children of 0
Frames ==
    [f \in FrameIds |->
        IF f = 1
        THEN << VideoObject(f, 0, <<"t">>, <<"t", "2">>, None, None, None,
                            WholeBox(2, 2, 2, 2, None), {}),
                VideoObject(f, 1, <<"t", "2">>, <<"t">>, Some(Finite(1)), Some(0),
                            Some(TrackInfo(1, WholeBox(6, 6, 2, 2, None))),
                            WholeBox(2, 2, 2, 2, Some(Finite(0))), {<<<<"t">>, <<"2">>>>}),
                VideoObject(f, 2, <<"t", "2">>, <<"t", "2">>, Some(NaN), Some(0), None,
                            WholeBox(1, 1, 1, 2, None), {}) >>
        ELSE << VideoObject(f, 0, <<"2">>, <<"t">>, Some(Finite(0)), None,
                            Some(TrackInfo(2, WholeBox(3, 2, 2, 2, Some(Finite(0))))),
                            WholeBox(2, 2, 4, 2, None), {<<<<"t">>, <<"t">>>>}),
                VideoObject(f, 2, <<"t">>, <<"2">>, None, Some(1), None,
                            WholeBox(6, 6, 2, 1, Some(Finite(0))), {}) >>]

\* VideoObjectProxy::get_parent
get_parent(o) ==
    IF o.parent_id = None THEN None
    ELSE LET found == SelectSeq(Frames[o.frame], LAMBDA p : p.id = o.parent_id[1])
         IN IF found = <<>> THEN None ELSE Some(found[1])

\* VideoObjectProxy::get_children
get_children(o) == SelectSeq(Frames[o.frame], LAMBDA c : c.parent_id = Some(o.id))

\* ---- the plugin functions: sample_plugin's unary_op_even
PluginPaths == {<<"l", "i", "b">>}
PluginSymbols == {<<"e", "v", "e", "n">>}

\* the canonical name format!("{}@{}", plugin, function)
udf_name(plugin, function) == plugin \o <<"@">> \o function

unary_op_even(o) == o.id % 2 = 0

\* call_object_predicate of a registered name on one object
call_object_predicate(name, o) == unary_op_even(o)

\* ExecutableMatchQuery<&RwLockReadGuard<VideoObject>>::execute
object_execute(query, o) ==
    CASE query.variant = "Id" -> int_execute(query.int, o.id)
      [] query.variant = "Creator" -> string_execute(query.str, o.creator)
      [] query.variant = "Label" -> string_execute(query.str, o.label)
      [] query.variant = "Confidence" ->
            IF o.confidence = None THEN FALSE
            ELSE float_execute(query.float, o.confidence[1])
      [] query.variant = "ConfidenceDefined" -> o.confidence # None
      [] query.variant = "TrackDefined" -> o.track_info # None
      [] query.variant = "TrackId" ->
            IF o.track_info = None THEN FALSE
            ELSE int_execute(query.int, o.track_info[1].id)
      [] query.variant = "TrackBoxXCenter" ->
            IF o.track_info = None THEN FALSE
            ELSE float_execute(query.float, o.track_info[1].bounding_box.xc)
      [] query.variant = "TrackBoxYCenter" ->
            IF o.track_info = None THEN FALSE
            ELSE float_execute(query.float, o.track_info[1].bounding_box.yc)
      [] query.variant = "TrackBoxWidth" ->
            IF o.track_info = None THEN FALSE
            ELSE float_execute(query.float, o.track_info[1].bounding_box.width)
      [] query.variant = "TrackBoxHeight" ->
            IF o.track_info = None THEN FALSE
            ELSE float_execute(query.float, o.track_info[1].bounding_box.height)
      [] query.variant = "TrackBoxWidthToHeightRatio" ->
            IF o.track_info = None THEN FALSE
            ELSE float_execute(query.float,
                               get_width_to_height_ratio(o.track_info[1].bounding_box))
      [] query.variant = "TrackBoxArea" ->
            IF o.track_info = None THEN FALSE
            ELSE float_execute(query.float, get_area(o.track_info[1].bounding_box))
      [] query.variant = "TrackBoxAngle" ->
            IF o.track_info = None THEN FALSE
            ELSE IF o.track_info[1].bounding_box.angle = None THEN FALSE
            ELSE float_execute(query.float, o.track_info[1].bounding_box.angle[1])
      [] query.variant = "TrackBoxMetric" ->
            IF o.track_info = None THEN FALSE
            ELSE LET t == o.track_info[1]
                     other == RBBox(query.other[1], query.other[2], query.other[3],
                                    query.other[4], query.other[5])
                     metric ==
                        CASE query.metric_type = "IoU" ->
                                unwrap_or(iou(t.bounding_box, other), Finite(0))
                          [] query.metric_type = "IoSelf" ->
                                unwrap_or(ios(t.bounding_box, o.bbox), Finite(0))
                          [] query.metric_type = "IoOther" ->
                                unwrap_or(ioo(t.bounding_box, other), Finite(0))
                 IN float_execute(query.threshold_expr, metric)
      [] query.variant = "ParentDefined" -> o.parent_id # None
      [] query.variant = "BoxWidth" -> float_execute(query.float, o.bbox.width)
      [] query.variant = "BoxHeight" -> float_execute(query.float, o.bbox.height)
      [] query.variant = "BoxXCenter" -> float_execute(query.float, o.bbox.xc)
      [] query.variant = "BoxYCenter" -> float_execute(query.float, o.bbox.yc)
      [] query.variant = "BoxAngleDefined" -> o.bbox.angle # None
      [] query.variant = "BoxArea" -> float_execute(query.float, get_area(o.bbox))
      [] query.variant = "BoxWidthToHeightRatio" ->
            float_execute(query.float, get_width_to_height_ratio(o.bbox))
      [] query.variant = "BoxAngle" ->
            IF o.bbox.angle = None THEN FALSE
            ELSE float_execute(query.float, o.bbox.angle[1])
      [] query.variant = "BoxMetric" ->
            LET other == RBBox(query.other[1], query.other[2], query.other[3],
                               query.other[4], query.other[5])
                metric ==
                    CASE query.metric_type = "IoU" ->
                            unwrap_or(iou(o.bbox, other), Finite(0))
                      [] query.metric_type = "IoSelf" ->
                            unwrap_or(ios(o.bbox, o.bbox), Finite(0))
                      [] query.metric_type = "IoOther" ->
                            unwrap_or(ioo(o.bbox, other), Finite(0))
            IN float_execute(query.threshold_expr, metric)
      [] query.variant = "AttributeDefined" ->
            <<query.creator, query.label>> \in o.attributes
      [] query.variant = "AttributesEmpty" -> o.attributes = {}
      [] query.variant = "Idle" -> TRUE

RECURSIVE execute(_, _)
RECURSIVE FilterMap(_, _, _)
RECURSIVE FilterMapFront(_, _, _)

\* faulty variant: a matching object is put before the ones found so far
filter_front(objs, query) == FilterMapFront(objs, query, Len(objs))

\* filter: the objects for which the query holds, cloned in turn
filter(objs, query) == FilterMap(objs, query, Len(objs))

\* ExecutableMatchQuery<&VideoObjectProxy>::execute
execute(query, o) ==
    CASE query.variant = "And" ->
            \A i \in 1..Len(query.list) : execute(query.list[i], o)
      [] query.variant = "Or" ->
            \E i \in 1..Len(query.list) : execute(query.list[i], o)
      [] query.variant = "Not" -> ~execute(query.q, o)
      [] query.variant = "WithChildren" ->
            int_execute(query.int, Len(filter(get_children(o), query.q)))
      [] query.variant = "ParentId" ->
            IF get_parent(o) = None THEN FALSE
            ELSE int_execute(query.int, get_parent(o)[1].id)
      [] query.variant = "ParentCreator" ->
            IF get_parent(o) = None THEN FALSE
            ELSE string_execute(query.str, get_parent(o)[1].creator)
      [] query.variant = "ParentLabel" ->
            IF get_parent(o) = None THEN FALSE
            ELSE string_execute(query.str, get_parent(o)[1].label)
      [] query.variant = "UserDefinedObjectPredicate" ->
            call_object_predicate(udf_name(query.plugin, query.function), o)
      [] OTHER -> object_execute(query, o)

\* the variants the match of ExecutableMatchQuery<&VideoObjectProxy> has an
\* arm for, and the ones the match it hands the others to has an arm for
ProxyArms ==
    {"And", "Or", "Not", "WithChildren", "EvalExpr", "ParentId", "ParentCreator",
     "ParentLabel", "UserDefinedObjectPredicate"}

ObjectArms ==
    {"Id", "Creator", "Label", "Confidence", "ConfidenceDefined", "TrackDefined",
     "TrackId", "TrackBoxXCenter", "TrackBoxYCenter", "TrackBoxWidth", "TrackBoxHeight",
     "TrackBoxWidthToHeightRatio", "TrackBoxArea", "TrackBoxAngle", "TrackBoxMetric",
     "ParentDefined", "BoxWidth", "BoxHeight", "BoxXCenter", "BoxYCenter",
     "BoxAngleDefined", "BoxArea", "BoxWidthToHeightRatio", "BoxAngle", "BoxMetric",
     "AttributeDefined", "AttributesEmpty", "AttributesJMESQuery", "Idle"}

RECURSIVE panics(_, _)

\* the evaluation of the query on the object reaches `_ => panic!("not
\* implemented")`: all() and any() stop at the first element that decides
panics(query, o) ==
    CASE query.variant = "And" ->
            \E i \in 1..Len(query.list) :
                /\ \A j \in 1..(i - 1) :
                        ~panics(query.list[j], o) /\ execute(query.list[j], o)
                /\ panics(query.list[i], o)
      [] query.variant = "Or" ->
            \E i \in 1..Len(query.list) :
                /\ \A j \in 1..(i - 1) :
                        ~panics(query.list[j], o) /\ ~execute(query.list[j], o)
                /\ panics(query.list[i], o)
      [] query.variant = "Not" -> panics(query.q, o)
      [] query.variant = "WithChildren" ->
            \E i \in 1..Len(get_children(o)) : panics(query.q, get_children(o)[i])
      [] query.variant \in ProxyArms -> FALSE
      [] OTHER -> query.variant \notin ObjectArms

execute_with_new_context(query, o) == execute(query, o)

FilterMap(objs, query, n) ==
    IF n = 0 THEN <<>>
    ELSE LET prev == FilterMap(objs, query, n - 1)
         IN IF execute_with_new_context(query, objs[n])
            THEN Append(prev, objs[n])
            ELSE prev

FilterMapFront(objs, query, n) ==
    IF n = 0 THEN <<>>
    ELSE LET prev == FilterMapFront(objs, query, n - 1)
         IN IF execute_with_new_context(query, objs[n])
            THEN <<objs[n]>> \o prev
            ELSE prev

\* the fold of partition after n objects
RECURSIVE PartitionFold(_, _, _)
PartitionFold(objs, query, n) ==
    IF n = 0 THEN <<<<>>, <<>>>>
    ELSE LET acc == PartitionFold(objs, query, n - 1)
         IN IF execute_with_new_context(query, objs[n])
            THEN <<Append(acc[1], objs[n]), acc[2]>>
            ELSE <<acc[1], Append(acc[2], objs[n])>>

partition(objs, query) == PartitionFold(objs, query, Len(objs))

\* ---- JSON, as serde_json writes and reads it.  A document is a tree:
\* null, a number (written with a fraction when it is an f64), a string, an
\* array, an object with its members in order; the name of an enum variant
\* is a string of its own kind, a name never being mistaken for a text
JNull == [t |-> "null"]
JNum(n, frac) == [t |-> "num", n |-> n, frac |-> frac]
JStr(s) == [t |-> "str", s |-> s]
JName(name) == [t |-> "name", name |-> name]
JArr(items) == [t |-> "arr", items |-> items]
JObj(members) == [t |-> "obj", members |-> members]

\* an enum variant that holds something: {"name": value}
JVariant(name, value) == JObj(<< <<name, value>> >>)

Parsed(v) == [ok |-> TRUE, v |-> v]
ParseError == [ok |-> FALSE, v |-> <<>>]

\* the serde names of the expression variants
ExpressionNames ==
    << <<"EQ", "eq">>, <<"NE", "ne">>, <<"LT", "lt">>, <<"LE", "le">>,
       <<"GT", "gt">>, <<"GE", "ge">>, <<"Between", "between">>,
       <<"OneOf", "one_of">>, <<"Contains", "contains">>,
       <<"NotContains", "not_contains">>, <<"StartsWith", "starts_with">>,
       <<"EndsWith", "ends_with">> >>

NumberOps == {"EQ", "NE", "LT", "LE", "GT", "GE", "Between", "OneOf"}
StringOps == {"EQ", "NE", "Contains", "NotContains", "StartsWith", "EndsWith", "OneOf"}

rename(op) ==
    ExpressionNames[CHOOSE i \in 1..Len(ExpressionNames) : ExpressionNames[i][1] = op][2]

\* the variant of `among` that has the serde name `name`, if any
variant_of(name, among) == {op \in among : rename(op) = name}

\* i64, f64, Option<f64> and String
int_to_json(n) == JNum(n, FALSE)
int_from_json(j) == IF j.t = "num" /\ ~j.frac THEN Parsed(j.n) ELSE ParseError

\* serde_json writes an f64 that is not finite as null
float_to_json(f) == IF f.class = "finite" THEN JNum(f.n, TRUE) ELSE JNull
float_from_json(j) == IF j.t = "num" THEN Parsed(Finite(j.n)) ELSE ParseError

option_float_to_json(o) == IF o = None THEN JNull ELSE float_to_json(o[1])
option_float_from_json(j) ==
    IF j.t = "null" THEN Parsed(None)
    ELSE IF j.t = "num" THEN Parsed(Some(Finite(j.n)))
    ELSE ParseError

string_to_json(s) == JStr(s)
string_from_json(j) == IF j.t = "str" THEN Parsed(j.s) ELSE ParseError

\* Vec<T> and tuples: an array of the elements
seq_to_json(seq, elem_to_json(_)) == JArr([i \in 1..Len(seq) |-> elem_to_json(seq[i])])
seq_from_json(j, elem_from_json(_)) ==
    IF j.t # "arr" THEN ParseError
    ELSE IF \E i \in 1..Len(j.items) : ~elem_from_json(j.items[i]).ok THEN ParseError
    ELSE Parsed([i \in 1..Len(j.items) |-> elem_from_json(j.items[i]).v])

\* the one member of the object of a variant
is_variant(j) == j.t = "obj" /\ Len(j.members) = 1

\* an expression over T: {"eq": x}, {"between": [a, b]}, {"one_of": [...]}
expression_to_json(op, x, y, v, elem_to_json(_)) ==
    JVariant(rename(op),
             IF op = "Between" THEN JArr(<<elem_to_json(x), elem_to_json(y)>>)
             ELSE IF op = "OneOf" THEN seq_to_json(v, elem_to_json)
             ELSE elem_to_json(x))

\* what an expression document holds: the variant, and x, y, v as read
expression_from_json(j, among, elem_from_json(_), default) ==
    IF ~is_variant(j) THEN ParseError
    ELSE LET found == variant_of(j.members[1][1], among)
             value == j.members[1][2]
         IN IF found = {} THEN ParseError
            ELSE LET op == CHOOSE o \in found : TRUE
                     list == seq_from_json(value, elem_from_json)
                 IN IF op = "Between"
                    THEN IF list.ok /\ Len(list.v) = 2
                         THEN Parsed([op |-> op, x |-> list.v[1], y |-> list.v[2], v |-> <<>>])
                         ELSE ParseError
                    ELSE IF op = "OneOf"
                    THEN IF list.ok
                         THEN Parsed([op |-> op, x |-> default, y |-> default, v |-> list.v])
                         ELSE ParseError
                    ELSE IF elem_from_json(value).ok
                         THEN Parsed([op |-> op, x |-> elem_from_json(value).v,
                                      y |-> default, v |-> <<>>])
                         ELSE ParseError

int_expression_to_json(e) == expression_to_json(e.op, e.x, e.y, e.v, int_to_json)
int_expression_from_json(j) ==
    LET r == expression_from_json(j, NumberOps, int_from_json, 0)
    IN IF r.ok THEN Parsed(IntExpression(r.v.op, r.v.x, r.v.y, r.v.v)) ELSE ParseError

float_expression_to_json(e) == expression_to_json(e.op, e.fx, e.fy, e.fv, float_to_json)
float_expression_from_json(j) ==
    LET r == expression_from_json(j, NumberOps, float_from_json, Finite(0))
    IN IF r.ok THEN Parsed(FloatExpression(r.v.op, r.v.x, r.v.y, r.v.v)) ELSE ParseError

string_expression_to_json(e) == expression_to_json(e.op, e.sx, e.sx, e.sv, string_to_json)
string_expression_from_json(j) ==
    LET r == expression_from_json(j, StringOps \ {"Between"}, string_from_json, <<>>)
    IN IF r.ok THEN Parsed(StringExpression(r.v.op, r.v.x, r.v.v)) ELSE ParseError

\* the variants of MatchQuery: the serde name of each and what it holds
MatchQueryVariants ==
    << [variant |-> "Id", name |-> "object.id", holds |-> "int"],
       [variant |-> "Creator", name |-> "creator", holds |-> "str"],
       [variant |-> "Label", name |-> "label", holds |-> "str"],
       [variant |-> "ConfidenceDefined", name |-> "confidence.defined", holds |-> "unit"],
       [variant |-> "Confidence", name |-> "confidence", holds |-> "float"],
       [variant |-> "TrackDefined", name |-> "track.id.defined", holds |-> "unit"],
       [variant |-> "TrackId", name |-> "track.id", holds |-> "int"],
       [variant |-> "TrackBoxXCenter", name |-> "track.bbox.xc", holds |-> "float"],
       [variant |-> "TrackBoxYCenter", name |-> "track.bbox.yc", holds |-> "float"],
       [variant |-> "TrackBoxWidth", name |-> "track.bbox.width", holds |-> "float"],
       [variant |-> "TrackBoxHeight", name |-> "track.bbox.height", holds |-> "float"],
       [variant |-> "TrackBoxArea", name |-> "track.bbox.area", holds |-> "float"],
       [variant |-> "TrackBoxWidthToHeightRatio",
        name |-> "track.bbox.width_to_height_ratio", holds |-> "float"],
       [variant |-> "TrackBoxAngleDefined", name |-> "track.bbox.angle.defined",
        holds |-> "unit"],
       [variant |-> "TrackBoxAngle", name |-> "track.bbox.angle", holds |-> "float"],
       [variant |-> "TrackBoxMetric", name |-> "track.bbox.metric", holds |-> "metric"],
       [variant |-> "ParentDefined", name |-> "parent.defined", holds |-> "unit"],
       [variant |-> "ParentId", name |-> "parent.id", holds |-> "int"],
       [variant |-> "ParentCreator", name |-> "parent.creator", holds |-> "str"],
       [variant |-> "ParentLabel", name |-> "parent.label", holds |-> "str"],
       [variant |-> "WithChildren", name |-> "with_children", holds |-> "children"],
       [variant |-> "BoxXCenter", name |-> "bbox.xc", holds |-> "float"],
       [variant |-> "BoxYCenter", name |-> "bbox.yc", holds |-> "float"],
       [variant |-> "BoxWidth", name |-> "bbox.width", holds |-> "float"],
       [variant |-> "BoxHeight", name |-> "bbox.height", holds |-> "float"],
       [variant |-> "BoxArea", name |-> "bbox.area", holds |-> "float"],
       [variant |-> "BoxWidthToHeightRatio", name |-> "bbox.width_to_height_ratio",
        holds |-> "float"],
       [variant |-> "BoxAngleDefined", name |-> "bbox.angle.defined", holds |-> "unit"],
       [variant |-> "BoxAngle", name |-> "bbox.angle", holds |-> "float"],
       [variant |-> "BoxMetric", name |-> "bbox.metric", holds |-> "metric"],
       [variant |-> "AttributeDefined", name |-> "attribute.defined", holds |-> "attribute"],
       [variant |-> "AttributesEmpty", name |-> "attributes.empty", holds |-> "unit"],
       [variant |-> "AttributesJMESQuery", name |-> "attributes.jmes_query",
        holds |-> "text"],
       [variant |-> "And", name |-> "and", holds |-> "list"],
       [variant |-> "Or", name |-> "or", holds |-> "list"],
       [variant |-> "Not", name |-> "not", holds |-> "query"],
       [variant |-> "Idle", name |-> "pass", holds |-> "unit"],
       [variant |-> "UserDefinedObjectPredicate",
        name |-> "user_defined_object_predicate", holds |-> "udf"],
       [variant |-> "EvalExpr", name |-> "eval", holds |-> "text"] >>

VariantRows == {MatchQueryVariants[i] : i \in 1..Len(MatchQueryVariants)}

row_of_variant(variant) == CHOOSE row \in VariantRows : row.variant = variant

rows_of_name(name) == {row \in VariantRows : row.name = name}

\* BBoxMetricType
MetricTypes == {"IoU", "IoSelf", "IoOther"}

\* the box (xc, yc, width, height, angle) of a metric
other_to_json(other) ==
    JArr(<<float_to_json(other[1]), float_to_json(other[2]), float_to_json(other[3]),
           float_to_json(other[4]), option_float_to_json(other[5])>>)

other_from_json(j) ==
    IF j.t # "arr" THEN ParseError
    ELSE IF Len(j.items) # 5 THEN ParseError
    ELSE IF \E i \in 1..4 : ~float_from_json(j.items[i]).ok THEN ParseError
    ELSE IF ~option_float_from_json(j.items[5]).ok THEN ParseError
    ELSE Parsed(<<float_from_json(j.items[1]).v, float_from_json(j.items[2]).v,
                  float_from_json(j.items[3]).v, float_from_json(j.items[4]).v,
                  option_float_from_json(j.items[5]).v>>)

metric_to_json(query) ==
    JObj(<< <<"other", other_to_json(query.other)>>,
            <<"metric_type", JName(query.metric_type)>>,
            <<"threshold_expr", float_expression_to_json(query.threshold_expr)>> >>)

metric_from_json(variant, j) ==
    IF j.t # "obj" THEN ParseError
    ELSE IF Len(j.members) # 3 THEN ParseError
    ELSE IF <<j.members[1][1], j.members[2][1], j.members[3][1]>>
                # <<"other", "metric_type", "threshold_expr">> THEN ParseError
    ELSE LET other == other_from_json(j.members[1][2])
             kind == j.members[2][2]
             expr == float_expression_from_json(j.members[3][2])
         IN IF ~other.ok \/ ~expr.ok \/ kind.t # "name" THEN ParseError
            ELSE IF kind.name \notin MetricTypes THEN ParseError
            ELSE Parsed(Metric(variant, other.v, kind.name, expr.v))

RECURSIVE to_json(_)
RECURSIVE from_json(_)

\* MatchQuery::to_json: serde_json::to_string of the derived Serialize
to_json(query) ==
    LET row == row_of_variant(query.variant)
    IN CASE row.holds = "unit" -> JName(row.name)
         [] row.holds = "int" -> JVariant(row.name, int_expression_to_json(query.int))
         [] row.holds = "float" ->
                JVariant(row.name, float_expression_to_json(query.float))
         [] row.holds = "str" -> JVariant(row.name, string_expression_to_json(query.str))
         [] row.holds = "text" -> JVariant(row.name, string_to_json(query.text))
         [] row.holds = "list" -> JVariant(row.name, seq_to_json(query.list, to_json))
         [] row.holds = "query" -> JVariant(row.name, to_json(query.q))
         [] row.holds = "children" ->
                JVariant(row.name,
                         JArr(<<to_json(query.q), int_expression_to_json(query.int)>>))
         [] row.holds = "attribute" ->
                JVariant(row.name,
                         JArr(<<string_to_json(query.creator),
                                string_to_json(query.label)>>))
         [] row.holds = "udf" ->
                JVariant(row.name,
                         JArr(<<string_to_json(query.plugin),
                                string_to_json(query.function)>>))
         [] row.holds = "metric" -> JVariant(row.name, metric_to_json(query))

\* what a variant named `row.name` reads from the value of its member
variant_from_json(row, value) ==
    CASE row.holds = "int" ->
            LET e == int_expression_from_json(value)
            IN IF e.ok THEN Parsed(OfInt(row.variant, e.v)) ELSE ParseError
      [] row.holds = "float" ->
            LET e == float_expression_from_json(value)
            IN IF e.ok THEN Parsed(OfFloat(row.variant, e.v)) ELSE ParseError
      [] row.holds = "str" ->
            LET e == string_expression_from_json(value)
            IN IF e.ok THEN Parsed(OfString(row.variant, e.v)) ELSE ParseError
      [] row.holds = "text" ->
            LET s == string_from_json(value)
            IN IF s.ok THEN Parsed(OfText(row.variant, s.v)) ELSE ParseError
      [] row.holds = "list" ->
            LET l == seq_from_json(value, from_json)
            IN IF l.ok THEN Parsed(OfList(row.variant, l.v)) ELSE ParseError
      [] row.holds = "query" ->
            LET q == from_json(value)
            IN IF q.ok THEN Parsed(Not(q.v)) ELSE ParseError
      [] row.holds = "children" ->
            IF value.t # "arr" THEN ParseError
            ELSE IF Len(value.items) # 2 THEN ParseError
            ELSE LET q == from_json(value.items[1])
                     e == int_expression_from_json(value.items[2])
                 IN IF q.ok /\ e.ok THEN Parsed(WithChildren(q.v, e.v)) ELSE ParseError
      [] row.holds \in {"attribute", "udf"} ->
            LET pair == seq_from_json(value, string_from_json)
            IN IF ~pair.ok THEN ParseError
               ELSE IF Len(pair.v) # 2 THEN ParseError
               ELSE IF row.holds = "udf"
               THEN Parsed(UserDefinedObjectPredicate(pair.v[1], pair.v[2]))
               ELSE Parsed(AttributeDefined(pair.v[1], pair.v[2]))
      [] row.holds = "metric" -> metric_from_json(row.variant, value)
      [] OTHER -> ParseError

\* MatchQuery::from_json: serde_json::from_str of the derived Deserialize
from_json(json) ==
    IF json.t = "name"
    THEN LET rows == {row \in rows_of_name(json.name) : row.holds = "unit"}
         IN IF rows = {} THEN ParseError
            ELSE Parsed(Unit((CHOOSE row \in rows : TRUE).variant))
    ELSE IF ~is_variant(json) THEN ParseError
    ELSE LET rows == rows_of_name(json.members[1][1])
         IN IF rows = {} THEN ParseError
            ELSE variant_from_json(CHOOSE row \in rows : TRUE, json.members[1][2])

\* ---- the inputs of the calls
\* lists of at most two objects of a frame, in any order, an object twice too
ObjLists(f) ==
    LET objs == Range(Frames[f])
    IN {<<>>} \cup {<<a>> : a \in objs} \cup {<<a, b>> : a \in objs, b \in objs}
           \cup {Frames[f]}

\* VideoObjectsProxyBatch: frame id -> the objects of that frame
Batches ==
    UNION {[ids -> UNION {ObjLists(f) : f \in ids}] : ids \in SUBSET FrameIds}

ObjectBatches == {b \in Batches : \A f \in DOMAIN b : b[f] \in ObjLists(f)}

IntExpressions ==
    {IntExpression(op, x, 0, <<>>) : op \in NumberOps \ {"Between", "OneOf"}, x \in Ints}
        \cup {IntExpression("Between", x, y, <<>>) : x \in Ints, y \in Ints}
        \cup {IntExpression("OneOf", 0, 0, v) :
                v \in {<<>>} \cup {<<x>> : x \in Ints} \cup {<<x, y>> : x \in Ints, y \in Ints}}

\* the queries that are evaluated: the variants over the fields of the
\* objects and the combinators; a plugin predicate is the whole query
ExecQueries ==
    { Unit("Idle"), Unit("ConfidenceDefined"), Unit("TrackDefined"), Unit("ParentDefined"),
      OfInt("Id", IntExpression("EQ", 1, 0, <<>>)),
      OfInt("Id", IntExpression("Between", 1, 2, <<>>)),
      OfInt("TrackId", IntExpression("GE", 2, 0, <<>>)),
      OfInt("ParentId", IntExpression("OneOf", 0, 0, <<0>>)),
      OfString("Creator", StringExpression("StartsWith", <<"t">>, <<>>)),
      OfString("Label", StringExpression("EndsWith", <<"2">>, <<>>)),
      OfString("ParentCreator", StringExpression("EQ", <<"t">>, <<>>)),
      OfString("ParentLabel", StringExpression("Contains", <<"2">>, <<>>)),
      OfFloat("Confidence", FloatExpression("GT", Finite(0), Finite(0), <<>>)),
      OfFloat("Confidence", FloatExpression("NE", NaN, Finite(0), <<>>)),
      WithChildren(Unit("Idle"), IntExpression("EQ", 2, 0, <<>>)),
      WithChildren(OfInt("Id", IntExpression("EQ", 1, 0, <<>>)),
                   IntExpression("GT", 0, 0, <<>>)),
      Not(Unit("ParentDefined")),
      Not(Unit("Idle")),
      OfList("And", << OfInt("Id", IntExpression("GE", 1, 0, <<>>)),
                       Unit("ConfidenceDefined") >>),
      OfList("Or", << OfInt("Id", IntExpression("EQ", 0, 0, <<>>)),
                      Unit("TrackDefined") >>),
      OfList("And", <<>>), OfList("Or", <<>>) }
        \cup {UserDefinedObjectPredicate(p, s) : p \in PluginPaths, s \in PluginSymbols}

\* the `other` of a metric: the box of an object, the box of a track, a box
\* that covers half of a box and a box that is far from every object
OtherBoxes ==
    { <<Finite(2), Finite(2), Finite(2), Finite(2), None>>,
      <<Finite(6), Finite(6), Finite(2), Finite(2), None>>,
      <<Finite(3), Finite(2), Finite(2), Finite(2), None>>,
      <<Finite(10), Finite(10), Finite(2), Finite(2), None>> }

\* the thresholds of a metric
Thresholds ==
    { FloatExpression("GE", Fraction(99, 100), Finite(0), <<>>),
      FloatExpression("LE", Fraction(1, 20), Finite(0), <<>>),
      FloatExpression("GT", Fraction(1, 2), Finite(0), <<>>),
      FloatExpression("EQ", Fraction(1, 3), Finite(0), <<>>) }

\* the variants that hold a float, a string, an integer and nothing
FloatVariants ==
    {"Confidence", "TrackBoxXCenter", "TrackBoxYCenter", "TrackBoxWidth",
     "TrackBoxHeight", "TrackBoxArea", "TrackBoxWidthToHeightRatio", "TrackBoxAngle",
     "BoxXCenter", "BoxYCenter", "BoxWidth", "BoxHeight", "BoxArea",
     "BoxWidthToHeightRatio", "BoxAngle"}

StringVariants == {"Creator", "Label", "ParentCreator", "ParentLabel"}

IntVariants == {"Id", "TrackId", "ParentId"}

UnitVariants ==
    {"ConfidenceDefined", "TrackDefined", "TrackBoxAngleDefined", "ParentDefined",
     "BoxAngleDefined", "AttributesEmpty", "Idle"}

\* the predicates evaluated on one object: every variant over a field
Predicates ==
    {Unit(v) : v \in UnitVariants}
        \cup {OfInt(v, IntExpression(op, 1, 0, <<>>)) : v \in IntVariants, op \in {"EQ", "NE"}}
        \cup {OfFloat(v, FloatExpression(op, x, Finite(0), <<>>)) :
                v \in FloatVariants, op \in {"NE", "GE"}, x \in {Finite(2), NaN}}
        \cup {OfString(v, StringExpression(op, <<"t">>, <<>>)) :
                v \in StringVariants, op \in {"EQ", "NotContains"}}
        \cup {Metric(v, other, kind, e) :
                v \in {"BoxMetric", "TrackBoxMetric"}, other \in OtherBoxes,
                kind \in {"IoU", "IoSelf", "IoOther"}, e \in Thresholds}
        \cup {AttributeDefined(<<"t">>, l) : l \in {<<"t">>, <<"2">>}}

\* the queries evaluated on one object: a predicate, its negation and the
\* combinators over a variant and one that decides before it or does not
ObjectQueries ==
    Predicates
        \cup {Not(p) : p \in Predicates}
        \cup {OfList(c, <<d, Unit("TrackBoxAngleDefined")>>) :
                c \in {"And", "Or"}, d \in {Unit("Idle"), Not(Unit("Idle"))}}
        \cup {WithChildren(Unit("TrackBoxAngleDefined"), IntExpression("GE", 0, 0, <<>>))}

\* the thresholds of the documents
FloatExpressions ==
    {FloatExpression(op, x, Finite(0), <<>>) : op \in {"EQ", "GT"}, x \in Floats}
        \cup {FloatExpression("Between", Finite(0), x, <<>>) : x \in Floats}
        \cup {FloatExpression("OneOf", Finite(0), Finite(0), v) :
                v \in {<<>>, <<Finite(1), Finite(0)>>}}

StringExpressions ==
    {StringExpression(op, x, <<>>) : op \in StringOps \ {"OneOf"}, x \in {<<>>, <<"t", "2">>}}
        \cup {StringExpression("OneOf", <<>>, <<<<"t">>, <<"2">>>>)}

\* the queries that are written and read: every variant of the AST
LeafQueries ==
    {Unit(row.variant) : row \in {r \in VariantRows : r.holds = "unit"}}
        \cup {OfInt(row.variant, e) :
                row \in {r \in VariantRows : r.holds = "int"},
                e \in {IntExpression("LE", 1, 0, <<>>), IntExpression("Between", 0, 2, <<>>),
                       IntExpression("OneOf", 0, 0, <<2, 1>>)}}
        \cup {OfFloat(row.variant, e) :
                row \in {r \in VariantRows : r.holds = "float"}, e \in FloatExpressions}
        \cup {OfString(row.variant, e) :
                row \in {r \in VariantRows : r.holds = "str"}, e \in StringExpressions}
        \cup {OfText(row.variant, <<"i", "d">>) :
                row \in {r \in VariantRows : r.holds = "text"}}
        \cup {AttributeDefined(<<"t">>, <<"2">>)}
        \cup {UserDefinedObjectPredicate(p, s) : p \in PluginPaths, s \in PluginSymbols}
        \cup {Metric(variant, <<Finite(0), Finite(1), Finite(1), Finite(1), angle>>, kind,
                     FloatExpression("GE", Finite(1), Finite(0), <<>>)) :
                variant \in {"BoxMetric", "TrackBoxMetric"},
                angle \in {None, Some(Finite(0))}, kind \in MetricTypes}

JsonQueries ==
    LeafQueries
        \cup {Not(q) : q \in ExecQueries}
        \cup {WithChildren(q, IntExpression("GE", 1, 0, <<>>)) : q \in ExecQueries}
        \cup {OfList(c, l) : c \in {"And", "Or"},
                             l \in {<<>>} \cup {<<q, Unit("Idle")>> : q \in ExecQueries}}

\* ---- a call of the engine and the tasks of a batch operator
NoCall == [op |-> "none", state |-> "returned"]

\* a call that has returned
Returned(op, args, ret) ==
    [op |-> op, state |-> "returned", args |-> args, ret |-> ret]

\* a call whose thread has panicked with a message
Panicked(op, args, message) ==
    [op |-> op, state |-> "panicked", args |-> args, message |-> message]

\* a frame of a batch operator: not yet taken by a thread, taken by a thread
\* that found the plugin function not registered, or done with its result
Task(pc, out) == [pc |-> pc, out |-> out]

\* a batch operator at work on its frames
Running(op, batch, query) ==
    [op |-> op, state |-> "running", args |-> <<batch, query>>,
     tasks |-> [f \in DOMAIN batch |-> Task("ready", <<>>)]]

\* the first evaluation of a query on a list looks the plugin function up
looks_up(query, objs) ==
    query.variant = "UserDefinedObjectPredicate" /\ objs # <<>>

\* what the closure of a batch operator computes for the objects of a frame
map_frame(op, objs, query) ==
    IF op = "batch_filter" THEN filter(objs, query) ELSE partition(objs, query)

\* faulty variant: a frame with no match is collected too
batch_filter_collect_all(tasks) == [f \in DOMAIN tasks |-> tasks[f].out]

\* batch_filter: the frames with a match, collected in a map
batch_filter_collect(tasks) ==
    [f \in {k \in DOMAIN tasks : tasks[k].out # <<>>} |-> tasks[f].out]

\* batch_partition: the fold of the triples into two maps
batch_partition_collect(tasks) ==
    << [f \in DOMAIN tasks |-> tasks[f].out[1]],
       [f \in DOMAIN tasks |-> tasks[f].out[2]] >>

\* -------------------------------------------------------------- actions
Init ==
    /\ id_counter = VideoPipeline.id_counter
    /\ stages = VideoPipeline.stages
    /\ stage_types = VideoPipeline.stage_types
    /\ last = [op |-> "default", ok |-> TRUE, ret |-> 0]
    /\ issued = {}
    /\ store = EmptyDB
    /\ queue = NoQueue
    /\ pushed = <<>>
    /\ popped = <<>>
    /\ pq_last = [op |-> "none", ok |-> TRUE, ret |-> None]
    /\ parameters = with_client.parameters
    /\ ops = with_client.ops
    /\ handle = with_client.handle
    /\ client = with_client.client
    /\ remote = <<>>
    /\ watch = <<>>
    /\ worker = NoWorker
    /\ caller = CallerIdle
    /\ mq_call = NoCall
    /\ registry = {}
    /\ registrations = <<>>

\* the call `op` with outcome r happens
Step(op, r) ==
    /\ r.self.id_counter <= MaxId
    /\ id_counter' = r.self.id_counter
    /\ stages' = r.self.stages
    /\ stage_types' = r.self.stage_types
    /\ last' = [op |-> op, ok |-> r.ok, ret |-> r.ret]
    /\ issued' = IF r.ok /\ r.ret # 0 THEN issued \cup {r.ret} ELSE issued
    /\ UNCHANGED <<pq_vars, ps_vars, mq_vars>>

AddStage(name, stage_type) == Step("add_stage", add_stage(Self, name, stage_type))

AddFrameUpdate(stage, frame_id, update) ==
    Step("add_frame_update", add_frame_update(Self, stage, frame_id, update))

AddBatchedFrameUpdate(stage, batch_id, frame_id, update) ==
    Step("add_batched_frame_update",
         add_batched_frame_update(Self, stage, batch_id, frame_id, update))

AddFrame(stage, frame) == Step("add_frame", add_frame(Self, stage, frame))

AddBatch(stage, batch) == Step("add_batch", add_batch(Self, stage, batch))

Del(stage, id) == Step("del", del(Self, stage, id))

ApplyUpdates(stage, id, failed) ==
    Step("apply_updates", apply_updates(Self, stage, id, failed))

MoveAsIs(source_stage, dest_stage, object_ids) ==
    Step("move_as_is", move_as_is(Self, source_stage, dest_stage, object_ids))

MoveAndPackFrames(source_stage, dest_stage, frame_ids) ==
    Step("move_and_pack_frames",
         move_and_pack_frames(Self, source_stage, dest_stage, frame_ids))

MoveAndUnpackBatch(source_stage, dest_stage, batch_id) ==
    Step("move_and_unpack_batch",
         move_and_unpack_batch(Self, source_stage, dest_stage, batch_id))

Next ==
    \/ \E d \in StageDecls : AddStage(d[1], d[2])
    \/ \E s \in StageNames, i \in Ids, u \in CallerUpdates : AddFrameUpdate(s, i, u)
    \/ \E s \in StageNames, b \in Ids, i \in Ids, u \in CallerUpdates :
            AddBatchedFrameUpdate(s, b, i, u)
    \/ \E s \in StageNames, f \in CallerFrames : AddFrame(s, f)
    \/ \E s \in StageNames, b \in CallerBatches : AddBatch(s, b)
    \/ \E s \in StageNames, i \in Ids : Del(s, i)
    \/ \E s \in StageNames, i \in Ids : \E k \in FailuresAt(s, i) : ApplyUpdates(s, i, k)
    \/ \E s \in StageNames, d \in StageNames :
            \E l \in IdLists : MoveAsIs(s, d, l)
    \/ \E s \in StageNames, d \in StageNames :
            \E l \in ListsIf(get_stage_type(Self, s) = "Frame"
                                /\ get_stage_type(Self, d) = "Batch") :
                MoveAndPackFrames(s, d, l)
    \/ \E s \in StageNames, d \in StageNames, b \in Ids : MoveAndUnpackBatch(s, d, b)

Spec == Init /\ [][Next]_vars

\* ----------------------------------------------- PersistentQueue actions
\* the queue call `op` with outcome r happens
PQStep(op, r) ==
    /\ queue' = r.self
    /\ store' = r.self.db
    /\ pq_last' = [op |-> op, ok |-> r.ok, ret |-> r.ret]
    /\ UNCHANGED <<pipeline_vars, ps_vars, mq_vars>>

\* PersistentQueue::new(path, max_elements): the database is opened, or
\* created when the path holds none
Open(max_elements) ==
    /\ ~queue.open
    /\ PQStep("new", Return(new(store, max_elements), None))
    /\ UNCHANGED <<pushed, popped>>

\* the queue is dropped, or the process stops: the database stays
Close ==
    /\ queue.open
    /\ queue' = NoQueue
    /\ pq_last' = [op |-> "drop", ok |-> TRUE, ret |-> None]
    /\ UNCHANGED <<store, pushed, popped, pipeline_vars, ps_vars, mq_vars>>

\* PersistentQueue::remove_db(path) while no queue holds the database
RemoveDb ==
    /\ ~queue.open
    /\ store' = EmptyDB
    /\ pushed' = <<>>
    /\ popped' = <<>>
    /\ pq_last' = [op |-> "remove_db", ok |-> TRUE, ret |-> None]
    /\ UNCHANGED <<queue, pipeline_vars, ps_vars, mq_vars>>

Push(value) ==
    LET r == push(queue, value)
    IN /\ queue.open
       /\ r.ok => Len(pushed) < MaxPushes
       /\ PQStep("push", r)
       /\ pushed' = IF r.ok THEN Append(pushed, value) ELSE pushed
       /\ UNCHANGED popped

Pop ==
    LET r == pop(queue)
    IN /\ queue.open
       /\ r.ret # None => Len(popped) < MaxPushes
       /\ PQStep("pop", r)
       /\ popped' = IF r.ret # None THEN Append(popped, r.ret[1]) ELSE popped
       /\ UNCHANGED pushed

PQNext ==
    \/ \E m \in 1..MaxElements : Open(m)
    \/ Close
    \/ RemoveDb
    \/ \E v \in Values : Push(v)
    \/ Pop

PQSpec == Init /\ [][PQNext]_vars

\* push while the database refuses the write
PushWriteErr(value) ==
    LET r == push_write_err(queue, value)
    IN /\ queue.open
       /\ r.err = "IO error"
       /\ Len(pushed) < WriteErrsUntil
       /\ PQStep("push", r)
       /\ UNCHANGED <<pushed, popped>>

\* pop while the database refuses the write
PopWriteErr ==
    LET r == pop_write_err(queue)
    IN /\ queue.open
       /\ r.err = "IO error"
       /\ Len(pushed) < WriteErrsUntil
       /\ PQStep("pop", r)
       /\ UNCHANGED <<pushed, popped>>

\* the queue on a database whose writes can fail
PQFaultNext ==
    \/ PQNext
    \/ \E v \in Values : PushWriteErr(v)
    \/ PopWriteErr

PQFaultSpec == Init /\ [][PQFaultNext]_vars

\* ------------------------------------------ EtcdParameterStorage actions
\* a call of a caller thread with outcome r happens; a call that panics
\* leaves the storage
PSStep(r) ==
    /\ parameters' = r.self.parameters
    /\ ops' = r.self.ops
    /\ handle' = r.self.handle
    /\ client' = r.self.client
    /\ UNCHANGED <<pipeline_vars, pq_vars, mq_vars>>

Run ==
    /\ handle = "None"
    /\ PSStep(run(Storage))
    /\ worker' = Spawned(client)
    /\ UNCHANGED <<remote, watch, caller>>

\* the spawned task starts: it unwraps its client and enters monitor, or
\* panics in unwrap when an earlier run took the client
TaskStart ==
    /\ handle = "Running"
    /\ worker.pc = "spawned"
    /\ worker' = IF worker.client THEN WorkerIdle ELSE NoWorker
    /\ handle' = IF worker.client THEN handle ELSE "Finished"
    /\ UNCHANGED <<parameters, ops, client, remote, watch, caller,
                   pipeline_vars, pq_vars, mq_vars>>

\* stop: the task is aborted where it is, and its watch stream with it
Stop ==
    LET r == stop(Storage)
    IN /\ PSStep(r)
       /\ worker' = IF r.ok THEN NoWorker ELSE worker
       /\ watch' = IF r.ok THEN <<>> ELSE watch
       /\ UNCHANGED <<remote, caller>>

OrderDataUpdate(spec) ==
    LET r == order_data_update(Storage, spec)
    IN /\ caller.pc = "idle"
       /\ r.ok => InFlight < MaxInFlight
       /\ PSStep(r)
       /\ caller' = IF r.ok THEN [caller EXCEPT !.pc = "ordered", !.key = spec]
                    ELSE caller
       /\ UNCHANGED <<remote, watch, worker>>

SetValue(key, value) ==
    LET r == set(Storage, key, value)
    IN /\ InFlight < MaxInFlight
       /\ PSStep(r)
       /\ UNCHANGED <<remote, watch, worker, caller>>

\* a read by the calling thread; after blocking_wait_key it is the read the
\* thread waited for
GetData(key) ==
    /\ caller.pc \in {"idle", "returned"}
    /\ caller.pc = "returned" => key = caller.key
    /\ PSStep(get_data(Storage, key))
    /\ caller' = CallerIdle
    /\ UNCHANGED <<remote, watch, worker>>

GetDataChecksum(key) ==
    /\ caller.pc = "idle"
    /\ PSStep(get_data_checksum(Storage, key))
    /\ UNCHANGED <<remote, watch, worker, caller>>

IsPresent(key) ==
    /\ caller.pc = "idle"
    /\ PSStep(Return(Storage, Some(is_present(Storage, key))))
    /\ UNCHANGED <<remote, watch, worker, caller>>

\* blocking_wait_key is entered, for the key of the order_data_update
WaitStart(timeout_ms) ==
    /\ caller.pc = "ordered"
    /\ caller' = [caller EXCEPT !.pc = "polling",
                    !.timeout_ms = IF timeout_ms <= BLOCKING_WAIT_SLEEP_DELAY_MS
                                   THEN BLOCKING_WAIT_SLEEP_DELAY_MS + 1
                                   ELSE timeout_ms]
    /\ UNCHANGED <<parameters, ops, handle, client, remote, watch, worker,
                   pipeline_vars, pq_vars, mq_vars>>

\* one turn of the loop of blocking_wait_key
WaitPoll(build) ==
    LET turn == blocking_wait_key_turn(Storage, caller.key, caller.timeout_ms, build)
    IN /\ caller.pc = "polling"
       /\ caller' =
            IF turn.pc = "panic" THEN CallerIdle
            ELSE [caller EXCEPT !.pc = turn.pc, !.timeout_ms = turn.timeout_ms,
                                !.ret = turn.ret]
       /\ UNCHANGED <<parameters, ops, handle, client, remote, watch, worker,
                      pipeline_vars, pq_vars, mq_vars>>

\* KVOperator::ops is entered: the pending operations are taken
Drain ==
    /\ handle = "Running"
    /\ worker.pc = "idle"
    /\ ops # <<>>
    /\ LET p == Partition(ops, Len(ops))
       IN worker' = [worker EXCEPT !.pc = "get", !.get_ops = p.get_ops,
                                   !.other_ops = p.other_ops]
    /\ ops' = <<>>
    /\ UNCHANGED <<parameters, handle, client, remote, watch, caller,
                   pipeline_vars, pq_vars, mq_vars>>

\* the next Get: the fetch returns and its result is inserted
Fetch ==
    /\ handle = "Running"
    /\ worker.pc = "get"
    /\ worker.get_ops # <<>>
    /\ LET res == fetch_vars(remote, Head(worker.get_ops).key)
       IN parameters' = InsertFetched(parameters, res, Len(res))
    /\ worker' = [worker EXCEPT !.get_ops = Tail(@)]
    /\ UNCHANGED <<ops, handle, client, remote, watch, caller,
                   pipeline_vars, pq_vars, mq_vars>>

\* a call of the worker on the cluster fails: the task ends
RemoteFails ==
    /\ handle = "Running"
    /\ worker.pc \in {"idle", "get"}
    /\ handle' = "Finished"
    /\ worker' = NoWorker
    /\ watch' = <<>>
    /\ UNCHANGED <<parameters, ops, client, remote, caller,
                   pipeline_vars, pq_vars, mq_vars>>

\* KVOperator::ops returns the other operations and the client runs them
\* on the cluster, which notifies the watch of each
Forward ==
    /\ handle = "Running"
    /\ worker.pc = "get"
    /\ worker.get_ops = <<>>
    /\ remote' = ApplyAll(remote, worker.other_ops, Len(worker.other_ops))
    /\ watch' = watch \o worker.other_ops
    /\ worker' = WorkerIdle
    /\ UNCHANGED <<parameters, ops, handle, client, caller,
                   pipeline_vars, pq_vars, mq_vars>>

\* the worker takes the next watch notification
Notify ==
    /\ handle = "Running"
    /\ worker.pc = "idle"
    /\ watch # <<>>
    /\ parameters' = notify(parameters, Head(watch))
    /\ watch' = Tail(watch)
    /\ UNCHANGED <<ops, handle, client, remote, worker, caller,
                   pipeline_vars, pq_vars, mq_vars>>

\* another client of the cluster changes it, before the storage runs or
\* while it runs; a worker in monitor is notified
RemoteChange(op) ==
    /\ client \/ worker.client
    /\ InFlight < MaxInFlight
    /\ remote' = ApplyRemote(remote, op)
    /\ watch' = IF worker.pc \in {"idle", "get"} THEN Append(watch, op) ELSE watch
    /\ UNCHANGED <<parameters, ops, handle, client, worker, caller,
                   pipeline_vars, pq_vars, mq_vars>>

RemoteOps ==
    {OpSet(k, v) : k \in ParamKeys, v \in Values}
        \cup {OpDelKey(k) : k \in ParamKeys}
        \cup {OpDelPrefix(p) : p \in ParamPrefixes}

PSNext ==
    \/ Run
    \/ TaskStart
    \/ Stop
    \/ \E k \in ParamKeys : OrderDataUpdate(k)
    \/ \E k \in ParamKeys, v \in Values : SetValue(k, v)
    \/ \E k \in ParamKeys : GetData(k)
    \/ \E k \in ParamKeys : GetDataChecksum(k)
    \/ \E k \in ParamKeys : IsPresent(k)
    \/ \E t \in Timeouts : WaitStart(t)
    \/ \E build \in Builds : WaitPoll(build)
    \/ Drain
    \/ Fetch
    \/ RemoteFails
    \/ Forward
    \/ Notify
    \/ \E op \in RemoteOps : RemoteChange(op)

PSSpec == Init /\ [][PSNext]_vars

\* the worker task is scheduled: a step it can take, it takes
WorkerFairness ==
    /\ WF_vars(TaskStart)
    /\ WF_vars(Drain)
    /\ WF_vars(Fetch)
    /\ WF_vars(Forward)
    /\ WF_vars(Notify)

PSLiveSpec == PSSpec /\ WorkerFairness

\* ------------------------------------------------- match query actions
\* register_plugin_function(plugin, function, kind, name) returns Ok
Register(name) ==
    /\ registry' = registry \cup {name}
    /\ registrations' = Append(registrations, name)

\* a call of one thread that evaluates `query` on `objs`: the plugin
\* function is registered first when the query needs it and it is not
Evaluate(query, objs) ==
    LET name == udf_name(query.plugin, query.function)
    IN IF looks_up(query, objs) /\ name \notin registry
       THEN Register(name)
       ELSE UNCHANGED <<registry, registrations>>

IntExecute(expr, o) ==
    /\ mq_call = NoCall
    /\ mq_call' = Returned("int_execute", <<expr, o>>, int_execute(expr, o))
    /\ UNCHANGED <<registry, registrations, pipeline_vars, pq_vars, ps_vars>>

\* query.execute_with_new_context(&o) of one object of a frame
Execute(query, o) ==
    /\ mq_call = NoCall
    /\ mq_call' =
            IF panics(query, o)
            THEN Panicked("execute_with_new_context", <<query, o>>, "not implemented")
            ELSE Returned("execute_with_new_context", <<query, o>>,
                          execute_with_new_context(query, o))
    /\ UNCHANGED <<registry, registrations, pipeline_vars, pq_vars, ps_vars>>

Filter(objs, query) ==
    /\ mq_call = NoCall
    /\ mq_call' = Returned("filter", <<objs, query>>, filter(objs, query))
    /\ Evaluate(query, objs)
    /\ UNCHANGED <<pipeline_vars, pq_vars, ps_vars>>

PartitionObjects(objs, query) ==
    /\ mq_call = NoCall
    /\ mq_call' = Returned("partition", <<objs, query>>, partition(objs, query))
    /\ Evaluate(query, objs)
    /\ UNCHANGED <<pipeline_vars, pq_vars, ps_vars>>

\* batch_filter or batch_partition is called: its frames go to the threads
BatchStart(op, batch, query) ==
    /\ mq_call = NoCall
    /\ mq_call' = Running(op, batch, query)
    /\ UNCHANGED <<registry, registrations, pipeline_vars, pq_vars, ps_vars>>

\* a thread takes a frame: it looks the plugin function up if the query
\* needs it, and evaluates the frame at once if nothing is to be registered
TaskTake(f) ==
    /\ mq_call.state = "running"
    /\ f \in DOMAIN mq_call.tasks
    /\ mq_call.tasks[f].pc = "ready"
    /\ LET batch == mq_call.args[1]
           query == mq_call.args[2]
       IN mq_call' =
            IF looks_up(query, batch[f])
               /\ udf_name(query.plugin, query.function) \notin registry
            THEN [mq_call EXCEPT !.tasks[f].pc = "register"]
            ELSE [mq_call EXCEPT
                    !.tasks[f] = Task("done", map_frame(mq_call.op, batch[f], query))]
    /\ UNCHANGED <<registry, registrations, pipeline_vars, pq_vars, ps_vars>>

\* the thread that found the function not registered registers it and
\* evaluates its frame
TaskRegister(f) ==
    /\ mq_call.state = "running"
    /\ f \in DOMAIN mq_call.tasks
    /\ mq_call.tasks[f].pc = "register"
    /\ LET batch == mq_call.args[1]
           query == mq_call.args[2]
       IN /\ Register(udf_name(query.plugin, query.function))
          /\ mq_call' = [mq_call EXCEPT
                           !.tasks[f] = Task("done", map_frame(mq_call.op, batch[f], query))]
    /\ UNCHANGED <<pipeline_vars, pq_vars, ps_vars>>

\* every frame is done: the results are collected and the call returns
Collect ==
    /\ mq_call.state = "running"
    /\ \A f \in DOMAIN mq_call.tasks : mq_call.tasks[f].pc = "done"
    /\ mq_call' = Returned(mq_call.op, mq_call.args,
                           IF mq_call.op = "batch_filter"
                           THEN batch_filter_collect(mq_call.tasks)
                           ELSE batch_partition_collect(mq_call.tasks))
    /\ UNCHANGED <<registry, registrations, pipeline_vars, pq_vars, ps_vars>>

ToJson(query) ==
    /\ mq_call = NoCall
    /\ mq_call' = Returned("to_json", <<query>>, to_json(query))
    /\ UNCHANGED <<registry, registrations, pipeline_vars, pq_vars, ps_vars>>

\* the document the last call wrote is read
FromJson ==
    /\ mq_call.state = "returned"
    /\ mq_call.op = "to_json"
    /\ mq_call' = Returned("from_json", mq_call.args, from_json(mq_call.ret))
    /\ UNCHANGED <<registry, registrations, pipeline_vars, pq_vars, ps_vars>>

\* the caller lets go of what the call returned, or of the panic it caught
Release ==
    /\ mq_call.state \in {"returned", "panicked"}
    /\ mq_call # NoCall
    /\ mq_call' = NoCall
    /\ UNCHANGED <<registry, registrations, pipeline_vars, pq_vars, ps_vars>>

\* the inputs of the calls a caller makes: none while a call is in progress
\* or its result is held
CallInputs(inputs) == IF mq_call = NoCall THEN inputs ELSE {}

MQNext ==
    \/ \E expr \in CallInputs(IntExpressions), o \in Ints : IntExecute(expr, o)
    \/ \E f \in CallInputs(FrameIds) : \E o \in Range(Frames[f]), query \in ObjectQueries :
            Execute(query, o)
    \/ \E f \in CallInputs(FrameIds) : \E objs \in ObjLists(f), query \in ExecQueries :
            Filter(objs, query)
    \/ \E f \in CallInputs(FrameIds) : \E objs \in ObjLists(f), query \in ExecQueries :
            PartitionObjects(objs, query)
    \/ \E op \in CallInputs({"batch_filter", "batch_partition"}) :
            \E batch \in ObjectBatches, query \in ExecQueries :
                BatchStart(op, batch, query)
    \/ \E f \in FrameIds : TaskTake(f)
    \/ \E f \in FrameIds : TaskRegister(f)
    \/ Collect
    \/ \E query \in CallInputs(JsonQueries) : ToJson(query)
    \/ FromJson
    \/ Release

MQSpec == Init /\ [][MQNext]_vars

\* ------------------------------------------------------------------ claims
\* arguments the properties range over: any stage name, any fresh frame, any
\* batch of at most one frame
AnyFrames == {NewFrame(FrameTags[k]) : k \in 1..Len(FrameTags)}

AnyBatches == {VideoFrameBatch} \cup {BatchAdd(VideoFrameBatch, i, f) : i \in Ids, f \in AnyFrames}

Allocating == {"add_frame", "add_batch", "move_and_pack_frames"}

\* the payload under id in a stage, NoPayload when the stage does not exist
PayloadAt(self, stage, id) ==
    IF has_stage(self, stage) THEN self.stages[stage][id] ELSE NoPayload

\* C1: id_counter starts at 0; a successful add_frame, add_batch or
\* move_and_pack_frames returns id_counter + 1, an id never returned before,
\* and stores it; every other call, and every failed call, leaves id_counter.
C1_IdCounterMonotonic ==
    /\ id_counter = 0
    /\ [][IF last'.op \in Allocating /\ last'.ok
          THEN /\ last'.ret = id_counter + 1
               /\ id_counter' = last'.ret
               /\ last'.ret \notin issued
          ELSE id_counter' = id_counter]_vars

C1_Witness ==
    /\ last.op = "move_and_pack_frames" /\ last.ok
    /\ last.ret = 2 /\ id_counter = 2 /\ issued = {1, 2}

C3_MoveAsIsAllOrNothing ==
    \A s \in StageNames, d \in StageNames, ids \in IdLists :
        LET r == move_as_is(Self, s, d, ids)
        IN ~r.ok => r.self = Self

\* C4: a move_and_unpack_batch that fails leaves the pipeline as it was.
C4_FailedUnpackUnmutated ==
    \A s \in StageNames, d \in StageNames, b \in Ids :
        LET r == move_and_unpack_batch(Self, s, d, b)
        IN ~r.ok => r.self = Self

\* C5: an id is the key of at most one payload over all stages, and the id of
\* a frame inside a batch is the key of no payload.
C5_IdsNeverCollide ==
    /\ \A i \in Ids : Cardinality({n \in DOMAIN stages : stages[n][i].kind # "None"}) <= 1
    /\ \A n \in DOMAIN stages, b \in Ids :
          \A i \in BatchIds(stages[n][b].batch) :
              \A m \in DOMAIN stages : stages[m][i].kind = "None"

\* C6: add_stage with an existing name fails and changes nothing; with a new
\* name it adds an empty stage of the given type and changes nothing else.
C6_AddStage ==
    \A n \in StageNames, t \in StageTypes :
        LET r == add_stage(Self, n, t)
        IN IF has_stage(Self, n)
           THEN ~r.ok /\ r.self = Self
           ELSE /\ r.ok
                /\ DOMAIN r.self.stages = DOMAIN stages \cup {n}
                /\ r.self.stages[n] = VideoPipelineStage
                /\ r.self.stage_types[n] = t
                /\ \A m \in DOMAIN stages :
                      /\ r.self.stages[m] = stages[m]
                      /\ r.self.stage_types[m] = stage_types[m]
                /\ r.self.id_counter = id_counter

C6_Witness ==
    /\ last.op = "add_stage" /\ ~last.ok
    /\ \E n \in DOMAIN stages, i \in Ids : stages[n][i].kind # "None"

\* C7: add_frame succeeds exactly on a Frame stage and add_batch exactly on a
\* Batch stage; a success puts the payload under id_counter + 1 with no
\* pending update, a failure changes nothing, id_counter included.
C7_AddFrameAddBatch ==
    \A s \in StageNames :
        /\ \A f \in AnyFrames :
              LET r == add_frame(Self, s, f)
              IN IF get_stage_type(Self, s) = "Frame"
                 THEN id_counter < MaxId =>
                        /\ r.ok /\ r.ret = id_counter + 1
                        /\ r.self = [Self EXCEPT !.id_counter = r.ret,
                                                 !.stages[s][r.ret] = FramePayload(f, <<>>)]
                 ELSE ~r.ok /\ r.self = Self
        /\ \A b \in AnyBatches :
              LET r == add_batch(Self, s, b)
              IN IF get_stage_type(Self, s) = "Batch"
                 THEN id_counter < MaxId =>
                        /\ r.ok /\ r.ret = id_counter + 1
                        /\ r.self = [Self EXCEPT !.id_counter = r.ret,
                                                 !.stages[s][r.ret] = BatchPayload(b, <<>>)]
                 ELSE ~r.ok /\ r.self = Self

C7_Witness ==
    /\ last.op = "add_frame" /\ ~last.ok
    /\ DOMAIN stages = StageNames
    /\ id_counter = 1

\* C8: a Frame stage holds Frame payloads only and a Batch stage Batch
\* payloads only, the stages are the names with a type, and the type of a
\* stage never changes.
StageTyping ==
    /\ DOMAIN stages = DOMAIN stage_types
    /\ \A n \in DOMAIN stages :
          /\ stage_types[n] \in StageTypes
          /\ \A i \in Ids : stages[n][i].kind \in {"None", stage_types[n]}

C8_StageTyping ==
    /\ []StageTyping
    /\ [][\A n \in DOMAIN stage_types :
            n \in DOMAIN stage_types' /\ stage_types'[n] = stage_types[n]]_vars

C8_Witness ==
    /\ last.op = "move_as_is" /\ last.ok
    /\ \E n \in DOMAIN stages, i \in Ids :
          stage_types[n] = "Batch" /\ stages[n][i].kind = "Batch"
    /\ \E n \in DOMAIN stages, i \in Ids :
          stage_types[n] = "Frame" /\ stages[n][i].kind = "Frame"

\* the updates of a batch's pending list tagged with frame_id, in order
UpdatesFor(updates, frame_id) ==
    LET tagged == SelectSeq(updates, LAMBDA e : e[1] = frame_id)
    IN [k \in 1..Len(tagged) |-> tagged[k][2]]

\* C9: apply_updates in which no update fails returns Ok, appends to each
\* frame the pending updates that target it, in queue order, and leaves the
\* pending list empty; applying again changes nothing.
C9_ApplyUpdatesInOrder ==
    \A s \in DOMAIN stages, i \in Ids :
        LET p == stages[s][i]
            r == apply_updates(Self, s, i, 0)
            q == r.self.stages[s][i]
            again == apply_updates(r.self, s, i, 0)
        IN p.kind # "None" =>
            /\ r.ok
            /\ r.self = [Self EXCEPT !.stages[s][i] = q]
            /\ q.kind = p.kind /\ q.updates = <<>>
            /\ p.kind = "Frame" => q.frame = [p.frame EXCEPT !.attrs = @ \o p.updates]
            /\ p.kind = "Batch" =>
                  \A j \in Ids :
                      q.batch[j] =
                          IF j \in BatchIds(p.batch)
                          THEN [p.batch[j] EXCEPT !.attrs = @ \o UpdatesFor(p.updates, j)]
                          ELSE NoFrame
            /\ again.ok /\ again.self = r.self

C9_Witness ==
    /\ last.op = "apply_updates" /\ last.ok
    /\ \E n \in DOMAIN stages, i \in Ids, j \in Ids :
          stages[n][i].kind = "Batch" /\ stages[n][i].batch[j].attrs = <<"u1", "u2">>

\* C10: del removes the payload under id from the stage and nothing else; it
\* fails, changing nothing, when the stage does not exist or holds no payload
\* under id, whatever the other stages hold.
C10_Del ==
    \A s \in StageNames, i \in Ids :
        LET r == del(Self, s, i)
        IN IF PayloadAt(Self, s, i).kind # "None"
           THEN r.ok /\ r.self = [Self EXCEPT !.stages[s][i] = NoPayload]
           ELSE ~r.ok /\ r.self = Self

C10_Witness ==
    /\ last.op = "del" /\ ~last.ok
    /\ \E s \in DOMAIN stages, s2 \in DOMAIN stages, i \in Ids :
          /\ stages[s][i].kind = "None"
          /\ stages[s2][i].kind # "None"
    /\ \E s \in DOMAIN stages, i \in Ids : stages[s][i].updates # <<>>

\* any update a caller can pass
AnyUpdates == Range(UpdateTags)

\* C11: add_frame_update appends the update at the end of the pending list of
\* the Frame payload under (stage, frame_id) and add_batched_frame_update
\* appends (frame_id, update) at the end of the pending list of the Batch
\* payload under (stage, batch_id), nothing else changing; each fails leaving
\* the pipeline when the stage or the id is missing or the payload is of the
\* other kind.
C11_AddUpdates ==
    \A s \in StageNames, i \in Ids, u \in AnyUpdates :
        LET p == PayloadAt(Self, s, i)
            r == add_frame_update(Self, s, i, u)
        IN /\ IF p.kind = "Frame"
              THEN r.ok /\ r.self = [Self EXCEPT !.stages[s][i] =
                                        FramePayload(p.frame, Append(p.updates, u))]
              ELSE ~r.ok /\ r.self = Self
           /\ \A j \in Ids :
                LET b == add_batched_frame_update(Self, s, i, j, u)
                IN IF p.kind = "Batch"
                   THEN b.ok /\ b.self = [Self EXCEPT !.stages[s][i] =
                                BatchPayload(p.batch, Append(p.updates, <<j, u>>))]
                   ELSE ~b.ok /\ b.self = Self

C11_Witness ==
    /\ last.op = "add_frame_update" /\ last.ok
    /\ \E s \in DOMAIN stages, i \in Ids :
          stages[s][i].kind = "Frame" /\ stages[s][i].updates = <<"u1", "u2">>
    /\ \E s \in DOMAIN stages, i \in Ids : stages[s][i].kind = "Batch"

\* C12: a move whose stages are missing or of the wrong types fails and leaves
\* the pipeline, id_counter included: move_as_is needs two existing stages
\* of one type, move_and_pack_frames a Frame source and a Batch destination,
\* move_and_unpack_batch a Batch source and a Frame destination.  A
\* move_as_is that succeeds leaves each listed payload, with its pending
\* updates, under the same id in the destination and, the destination being
\* another stage, not in the source.
C12_MovesCheckStages ==
    \A s \in StageNames, d \in StageNames :
        LET ts == get_stage_type(Self, s)
            td == get_stage_type(Self, d)
        IN /\ \A ids \in IdLists :
                LET r == move_as_is(Self, s, d, ids)
                IN /\ ~(has_stage(Self, s) /\ has_stage(Self, d) /\ ts = td)
                        => ~r.ok /\ r.self = Self
                   /\ r.ok => \A k \in 1..Len(ids) :
                        /\ PayloadAt(Self, s, ids[k]).kind # "None"
                        /\ PayloadAt(r.self, d, ids[k]) = PayloadAt(Self, s, ids[k])
                        /\ s # d => PayloadAt(r.self, s, ids[k]) = NoPayload
           /\ \A ids \in IdLists :
                LET r == move_and_pack_frames(Self, s, d, ids)
                IN ~(ts = "Frame" /\ td = "Batch") => ~r.ok /\ r.self = Self
           /\ \A b \in Ids :
                LET r == move_and_unpack_batch(Self, s, d, b)
                IN ~(ts = "Batch" /\ td = "Frame") => ~r.ok /\ r.self = Self

C12_Witness ==
    /\ last.op = "move_as_is" /\ last.ok
    /\ DOMAIN stages = StageNames
    /\ stage_types["output"] = "Frame"
    /\ \E i \in Ids :
          /\ stages["output"][i].kind = "Frame"
          /\ stages["output"][i].updates # <<>>
          /\ stages["input"][i].kind = "None"

\* ------------------------------------------------ PersistentQueue claims
\* the number of values pushed and not yet popped
Held == Len(pushed) - Len(popped)

\* the keys of the data cells of a database
DataCells(db) == DOMAIN db \ {WRITE_INDEX_CELL, READ_INDEX_CELL}

\* the ring indices from `from` (inclusive) to `to` (exclusive)
RingRange(from, to) ==
    IF from <= to THEN from..(to - 1)
    ELSE from..(MAX_ALLOWED_INDEX - 1) \cup 0..(to - 1)

\* the values the next n pops return
RECURSIVE NextPops(_, _)
NextPops(self, n) ==
    IF n = 0 THEN <<>>
    ELSE LET r == pop(self) IN <<r.ret>> \o NextPops(r.self, n - 1)

\* C13: the k-th pop that returns a value returns the value of the k-th
\* push that returned Ok, for every max_elements, also after the indices
\* have wrapped around.
C13_Fifo ==
    /\ Len(popped) <= Len(pushed)
    /\ \A k \in 1..Len(popped) : popped[k] = pushed[k]

\* C14: len() is the number of successful pushes minus the number of
\* successful pops, and is_empty() holds exactly when that number is 0.
C14_LenIsPushesMinusPops ==
    queue.open =>
        /\ len(queue) = Held
        /\ is_empty(queue) <=> Held = 0

\* C15: push fails exactly when len() >= max_elements, and len() never
\* exceeds max_elements.
C15_Bounded ==
    queue.open =>
        /\ len(queue) <= queue.max_elements
        /\ \A v \in Values : push(queue, v).ok <=> len(queue) < queue.max_elements

\* C16: a queue opened again on its database has the write_index, the
\* read_index and the len() of the queue that was open, and its pops return
\* the same values in the same order; a database with no index cells opens
\* with both indices 0.
C16_ReopenPreserves ==
    /\ queue.open =>
          \A m \in 1..MaxElements :
              LET again == new(store, m)
              IN /\ again.write_index = queue.write_index
                 /\ again.read_index = queue.read_index
                 /\ len(again) = len(queue)
                 /\ NextPops(again, MAX_ALLOWED_INDEX + 1) = NextPops(queue, MAX_ALLOWED_INDEX + 1)
    /\ \A m \in 1..MaxElements :
          LET fresh == new([k \in DataCells(store) |-> store[k]], m)
          IN fresh.write_index = 0 /\ fresh.read_index = 0

C16_Witness ==
    /\ pq_last.op = "new"
    /\ queue.write_index < queue.read_index
    /\ popped # <<>>
    /\ Held > 0

\* C17: the database changes only by the one batch of a push or a pop (or is
\* removed as a whole), and its data cells are exactly the cells of the
\* ring indices from the saved READ_INDEX to the saved WRITE_INDEX.
C17_PersistedConsistent ==
    LET saved == new(store, 1)
    IN DataCells(store) =
            {index_to_key(i) : i \in RingRange(saved.read_index, saved.write_index)}

C19_WaitThenGet ==
    (caller.pc = "returned" /\ caller.ret /\ is_active(Storage)) =>
        LET r == get_data(Storage, caller.key)
        IN /\ r.ok
           /\ r.ret # None
           /\ r.ret[1][1] = crc32(r.ret[1][2])

\* C20: every entry key -> (crc, value) of the parameters has
\* crc = crc32(value), and get_data_checksum(k) is the first component of
\* get_data(k) in the same state, None when get_data(k) is None.
C20_ChecksumInvariant ==
    /\ \A k \in DOMAIN parameters : parameters[k][1] = crc32(parameters[k][2])
    /\ is_active(Storage) =>
          \A k \in ParamKeys :
              LET data == get_data(Storage, k).ret
                  crc == get_data_checksum(Storage, k).ret
              IN crc = IF data = None THEN None ELSE Some(data[1][1])

C20_Witness ==
    /\ is_active(Storage)
    /\ DOMAIN parameters = ParamKeys
    /\ \E k \in ParamKeys : remote = <<>> /\ parameters[k][2] = <<1>>
    /\ \E k \in ParamKeys : parameters[k][2] = <<2>>

\* C21: blocking_wait_key(key, timeout_ms) terminates for every timeout_ms:
\* in no turn of its loop does the u64 counter of the remaining time go
\* below zero, neither by a panic of the subtraction nor by wrapping to a
\* huge remaining time.
C21_WaitCounterNeverBelowZero ==
    (caller.pc = "polling" /\ is_active(Storage)) =>
        /\ caller.timeout_ms # Wrapped
        /\ \A build \in Builds : ~sub_delay(caller.timeout_ms, build).overflow

\* C22: while is_active() is false, order_data_update and set panic and
\* leave the pending operations as they are.
C22_FailFast ==
    ~is_active(Storage) =>
        /\ \A spec \in ParamKeys :
              LET r == order_data_update(Storage, spec)
              IN ~r.ok /\ r.self.ops = ops
        /\ \A key \in ParamKeys, value \in Values :
              LET r == set(Storage, key, value)
              IN ~r.ok /\ r.self.ops = ops

\* the notifications a watch can deliver, over the keys and over prefixes
\* that match both keys, one key and no key
AnyNotifications ==
    RemoteOps \cup {OpDelPrefix(p) : p \in {<<>>, <<"a", "b">>, <<"b">>}}

\* key begins with prefix
Begins(key, prefix) ==
    \E n \in 0..Len(key) : prefix = [i \in 1..n |-> key[i]]

\* what the claim says of one notification between two snapshots
NotifyEffect(before, after, op) ==
    LET gone == IF op.op = "DelKey" THEN {op.key} \cap DOMAIN before
                ELSE IF op.op = "DelPrefix"
                THEN {k \in DOMAIN before : Begins(k, op.key)}
                ELSE {}
        put == IF op.op = "Set" THEN {op.key} ELSE {}
    IN /\ DOMAIN after = (DOMAIN before \ gone) \cup put
       /\ \A k \in put : after[k] = <<crc32(op.value), op.value>>
       /\ \A k \in DOMAIN after \ put : after[k] = before[k]

\* a step of the worker that takes the first notification of the watch
NotifyStep ==
    /\ handle = "Running" /\ handle' = "Running"
    /\ watch # <<>> /\ watch' = Tail(watch)

\* a step of the worker that inserts the result of a fetch
FetchStep ==
    worker.pc = "get" /\ worker.get_ops # <<>> /\ worker' # worker

\* C23: a notification has the effect of its kind on the snapshot (Set
\* inserts (crc32(v), v) under k alone, DelKey removes k alone, DelPrefix
\* removes the keys that begin with p alone); the worker applies the
\* notifications one at a time, the first delivered first, so that the
\* snapshot is the fold of these effects, and nothing but a notification or
\* a fetch changes the snapshot.
C23_NotificationsFold ==
    /\ [](\A op \in AnyNotifications :
            NotifyEffect(parameters, notify(parameters, op), op))
    /\ [][NotifyStep => NotifyEffect(parameters, parameters', Head(watch))]_vars
    /\ [][parameters' # parameters => (NotifyStep \/ FetchStep)]_vars

\* a key the thread waited for was present and a notification has removed
\* it: the snapshot is empty again and every notification is applied
C23_Witness ==
    /\ is_active(Storage)
    /\ caller.pc = "returned" /\ caller.ret
    /\ parameters = <<>>
    /\ watch = <<>>

\* stop has returned: the handle is taken and the client went to the task
Stopped == handle = "None" /\ ~client

\* the store is not active and its client is with no one: the state stop
\* leaves, and the state a task that ended by itself leaves
StoppedForGood == ~is_active(Storage) /\ ~client /\ ~worker.client

\* after is what before was, or before with operations appended
Extends(after, before) ==
    Len(after) >= Len(before) /\ SubSeq(after, 1, Len(before)) = before

\* C24: once stop() has returned on an active store is_active() is false
\* and stays false in every later state; no operation leaves the pending operations and nothing is
\* forwarded to the cluster when the task is aborted or has ended; stop()
\* on a store that is not active panics.
C24_StopIsFinal ==
    /\ [](Stopped => StoppedForGood)
    /\ [][StoppedForGood => StoppedForGood']_vars
    /\ [][(~client /\ ~worker.client) =>
             (Extends(ops', ops) /\ remote' = remote)]_vars
    /\ [](~is_active(Storage) =>
             (~stop(Storage).ok /\ stop(Storage).self = Storage))

\* the pending updates of the frames listed in ids[1..n] that a stage
\* holds, each update with the id of its frame, a frame at its first place
\* in the list
RECURSIVE ListedUpdates(_, _, _)
ListedUpdates(payloads, ids, n) ==
    IF n = 0 THEN <<>>
    ELSE LET id == ids[n]
             first == \A j \in 1..(n - 1) : ids[j] # id
             own == payloads[id].updates
         IN ListedUpdates(payloads, ids, n - 1) \o
                (IF first /\ payloads[id].kind = "Frame"
                 THEN [j \in 1..Len(own) |-> <<id, own[j]>>]
                 ELSE <<>>)

HasReturned(op) == mq_call.state = "returned" /\ mq_call.op = op

\* the objects of a list for which a query holds, or does not, in turn
Matching(objs, query) ==
    SelectSeq(objs, LAMBDA o : execute_with_new_context(query, o))

Others(objs, query) ==
    SelectSeq(objs, LAMBDA o : ~execute_with_new_context(query, o))

\* C25: filter(objs, q) returns the objects of objs for which q holds, in
\* the order of objs; partition(objs, q) returns these as its first list
\* and the other objects of objs, in the order of objs, as its second, the
\* two lengths adding up to the length of objs.
C25_FilterPartition ==
    /\ HasReturned("filter") =>
          mq_call.ret = Matching(mq_call.args[1], mq_call.args[2])
    /\ HasReturned("partition") =>
          LET objs == mq_call.args[1]
              query == mq_call.args[2]
          IN /\ mq_call.ret[1] = filter(objs, query)
             /\ mq_call.ret[1] = Matching(objs, query)
             /\ mq_call.ret[2] = Others(objs, query)
             /\ Len(mq_call.ret[1]) + Len(mq_call.ret[2]) = Len(objs)

\* a filter has returned two of three objects
C25_Witness ==
    /\ HasReturned("filter")
    /\ Len(mq_call.args[1]) > Len(mq_call.ret)
    /\ Len(mq_call.ret) > 1

\* C26: whatever the order in which the threads take the frames, batch_filter
\* returns a map over the frame ids whose objects have a match, each with
\* filter(objs, q) of its frame, and batch_partition returns two maps over
\* every frame id of the batch, with the two lists of partition(objs, q) of
\* each frame.
C26_BatchOperators ==
    /\ HasReturned("batch_filter") =>
          LET batch == mq_call.args[1]
              query == mq_call.args[2]
          IN /\ DOMAIN mq_call.ret =
                   {f \in DOMAIN batch : Matching(batch[f], query) # <<>>}
             /\ \A f \in DOMAIN mq_call.ret :
                   mq_call.ret[f] = filter(batch[f], query)
    /\ HasReturned("batch_partition") =>
          LET batch == mq_call.args[1]
              query == mq_call.args[2]
          IN /\ DOMAIN mq_call.ret[1] = DOMAIN batch
             /\ DOMAIN mq_call.ret[2] = DOMAIN batch
             /\ \A f \in DOMAIN batch :
                   /\ mq_call.ret[1][f] = partition(batch[f], query)[1]
                   /\ mq_call.ret[2][f] = partition(batch[f], query)[2]

\* a batch_filter over two frames with objects has returned one frame
C26_Witness ==
    /\ HasReturned("batch_filter")
    /\ DOMAIN mq_call.args[1] = FrameIds
    /\ \A f \in FrameIds : mq_call.args[1][f] # <<>>
    /\ Cardinality(DOMAIN mq_call.ret) = 1

\* C27: from_json(to_json(q)) succeeds and is q, for every query q.
C27_JsonRoundTrip ==
    HasReturned("from_json") =>
        /\ mq_call.ret.ok
        /\ mq_call.ret.v = mq_call.args[1]

\* what the claim says of an integer expression and a tested value
IntMeaning(expr, o) ==
    CASE expr.op = "EQ" -> o = expr.x
      [] expr.op = "NE" -> o # expr.x
      [] expr.op = "LT" -> o < expr.x
      [] expr.op = "LE" -> o <= expr.x
      [] expr.op = "GT" -> o > expr.x
      [] expr.op = "GE" -> o >= expr.x
      [] expr.op = "Between" -> o \in expr.x..expr.y
      [] expr.op = "OneOf" -> o \in Range(expr.v)

\* C28: IntExpression::execute(o) is o == x for EQ(x), o != x for NE(x),
\* o < x for LT(x), o <= x for LE(x), o > x for GT(x), o >= x for GE(x),
\* a <= o <= b for Between(a, b), which is false for a > b, and "o is in
\* the list" for OneOf(list).
C28_IntComparators ==
    HasReturned("int_execute") =>
        (mq_call.ret <=> IntMeaning(mq_call.args[1], mq_call.args[2]))

\* Between(a, b) has been found to hold at its upper bound
C28_Witness ==
    /\ HasReturned("int_execute")
    /\ mq_call.args[1].op = "Between"
    /\ mq_call.args[1].x < mq_call.args[1].y
    /\ mq_call.args[2] = mq_call.args[1].y
    /\ mq_call.ret

\* C29: a plugin function is registered once under its canonical name
\* plugin@function however many evaluations, of however many threads, need
\* it: no name is registered twice, and no registration happens for a name
\* that is registered.
C29_RegisteredOnce ==
    /\ [](\A i \in 1..Len(registrations), j \in 1..Len(registrations) :
            registrations[i] = registrations[j] => i = j)
    /\ [](Range(registrations) = registry)
    /\ [](registry \subseteq {p \o <<"@">> \o s : p \in PluginPaths, s \in PluginSymbols})
    /\ [][registrations' # registrations =>
             registrations'[Len(registrations')] \notin registry]_vars

\* ------------------------------------------------------ claims, continued
\* the ring indices
RingIndices == 0..(MAX_ALLOWED_INDEX - 1)

\* C31: read_index and write_index are always in 0..MAX_ALLOWED_INDEX - 1;
\* a push that returns Ok moves write_index by one on the ring and a pop
\* that returns a value moves read_index by one on the ring, from
\* MAX_ALLOWED_INDEX - 1 to 0; the key of a data cell is never the key of
\* the WRITE_INDEX or the READ_INDEX cell.
C31_RingIndices ==
    /\ [](queue.open => (queue.read_index \in RingIndices /\ queue.write_index \in RingIndices))
    /\ [](\A k \in DataCells(store) : \E i \in RingIndices : k = index_to_key(i))
    /\ [](\A i \in RingIndices :
              index_to_key(i) \notin {WRITE_INDEX_CELL, READ_INDEX_CELL})
    /\ [][(pq_last'.op = "push" /\ pq_last'.ok /\ queue.open /\ pushed' # pushed) =>
             (/\ queue'.write_index = (queue.write_index + 1) % MAX_ALLOWED_INDEX
              /\ queue'.read_index = queue.read_index)]_vars
    /\ [][(pq_last'.op = "pop" /\ queue.open /\ popped' # popped) =>
             (/\ queue'.read_index = (queue.read_index + 1) % MAX_ALLOWED_INDEX
              /\ queue'.write_index = queue.write_index)]_vars

\* both indices have wrapped around to 0
C31_Witness ==
    /\ queue.open
    /\ pq_last.op = "pop" /\ pq_last.ret # None
    /\ queue.read_index = 0 /\ queue.write_index = 0
    /\ Len(popped) = MAX_ALLOWED_INDEX

\* the indices of the queue are the ones its database holds
IndicesPersisted ==
    /\ queue.write_index = new(store, queue.max_elements).write_index
    /\ queue.read_index = new(store, queue.max_elements).read_index

\* C37: a push or a pop that returns an error leaves the queue as it was,
\* and the indices of an open queue, hence len() and is_empty(), are always
\* the ones of the index cells of its database.
C37_FailedWriteUnchanged ==
    /\ [][(queue.open /\ pq_last'.op \in {"push", "pop"} /\ ~pq_last'.ok) =>
             queue' = queue]_vars
    /\ [](queue.open => IndicesPersisted)

\* the Get operations of a list, and the others, in the order of the list
GetsOf(list) == SelectSeq(list, LAMBDA o : o.op = "Get")
OthersOf(list) == SelectSeq(list, LAMBDA o : o.op # "Get")

\* C32: a drain takes all the pending operations and leaves none; of the
\* operations taken the Gets are fetched one by one in queue order, each
\* fetch inserted in the copy, and the others are kept as they are, in queue
\* order, until no Get is left; only then are they handed to the cluster,
\* all at once and in that order.
C32_GetsBeforeOthers ==
    /\ [][(worker.pc = "idle" /\ worker'.pc = "get") =>
             (/\ worker'.get_ops = GetsOf(ops)
              /\ worker'.other_ops = OthersOf(ops)
              /\ ops' = <<>>)]_vars
    /\ [][(worker.pc = "get" /\ worker'.pc = "get") =>
             (/\ worker'.other_ops = worker.other_ops
              /\ \/ /\ worker'.get_ops = worker.get_ops
                    /\ parameters' = parameters
                 \/ /\ worker.get_ops # <<>>
                    /\ worker'.get_ops = Tail(worker.get_ops)
                    /\ LET res == fetch_vars(remote, Head(worker.get_ops).key)
                       IN parameters' = InsertFetched(parameters, res, Len(res))
                    /\ remote' = remote /\ watch' = watch)]_vars
    /\ [][(worker.pc = "get" /\ worker'.pc = "idle") =>
             (/\ worker.get_ops = <<>>
              /\ remote' = ApplyAll(remote, worker.other_ops, Len(worker.other_ops))
              /\ watch' = watch \o worker.other_ops
              /\ parameters' = parameters)]_vars
    /\ [][worker.pc # "idle" => Extends(ops', ops)]_vars

\* a Set and a Get were taken together; the Get is fetched, the cluster does
\* not have the Set yet
C32_Witness ==
    /\ worker.pc = "get"
    /\ worker.get_ops = <<>>
    /\ worker.other_ops # <<>> /\ worker.other_ops[1].op = "Set"
    /\ caller.pc = "ordered"
    /\ remote = <<>>
    /\ ops = <<>>

\* an update of key k is ordered and not yet fetched
Ordered(k) ==
    OpGet(k) \in Range(ops) \cup Range(worker.get_ops)

\* the watch notification `op` removes key k
Covers(op, k) ==
    \/ op.op = "DelKey" /\ op.key = k
    \/ op.op = "DelPrefix" /\ starts_with(k, op.key)

\* C39: with a worker that is scheduled, an ordered update of a key leads to
\* is_present(k), unless the store stops being active or the cluster does
\* not hold the key: the fetch of a key that the cluster holds makes the key
\* present; a key that is present stays present in every step but the one
\* that applies a watch DelKey or DelPrefix that covers it.
C39_OrderedFetchArrives ==
    /\ \A k \in ParamKeys :
          (is_active(Storage) /\ Ordered(k)) ~>
              (is_present(Storage, k) \/ ~is_active(Storage) \/ k \notin DOMAIN remote)
    /\ [][\A k \in ParamKeys :
             (/\ worker.pc = "get" /\ worker'.pc = "get"
              /\ worker'.get_ops # worker.get_ops
              /\ Head(worker.get_ops).key = k
              /\ k \in DOMAIN remote) =>
                 is_present(Storage, k)']_vars
    /\ [][\A k \in ParamKeys :
             (is_present(Storage, k) /\ ~is_present(Storage, k)') =>
                 (/\ watch # <<>> /\ Covers(Head(watch), k)
                  /\ watch' = Tail(watch)
                  /\ worker.pc = "idle")]_vars

\* a key is ordered while the cluster holds it, and it is not yet present
C39_Witness ==
    \E k \in ParamKeys :
        /\ is_active(Storage) /\ worker.pc = "idle"
        /\ Ordered(k) /\ k \in DOMAIN remote /\ ~is_present(Storage, k)

\* the operations the worker has taken and not yet worked off
Taken == Len(worker.get_ops) + Len(worker.other_ops)

\* C38: the pending operations change only by a push, which appends one
\* operation at the end and touches nothing the worker has taken, and by a
\* drain, which takes them all at once, each one once and in the order they
\* were pushed among the Gets and among the others; what the worker has
\* taken only shrinks until the next drain; with a worker that is scheduled,
\* pending operations of an active store are taken.
C38_TakenOnce ==
    /\ [][ops' # ops =>
             \/ /\ \E op \in {OpGet(k) : k \in ParamKeys}
                           \cup {OpSet(k, v) : k \in ParamKeys, v \in Values} :
                        ops' = Append(ops, op)
                /\ worker' = worker
             \/ /\ ops' = <<>>
                /\ worker.pc = "idle" /\ Taken = 0
                /\ Taken' = Len(ops)
                /\ worker'.get_ops = GetsOf(ops)
                /\ worker'.other_ops = OthersOf(ops)]_vars
    /\ [][ops' = ops => Taken' <= Taken]_vars
    /\ (is_active(Storage) /\ ops # <<>>) ~> (ops = <<>> \/ ~is_active(Storage))

\* the worker is at work on operations it took while a caller has pushed
\* another
C38_Witness ==
    /\ worker.pc = "get"
    /\ Taken > 0
    /\ ops # <<>>

\* ------------------------------------------- VideoPipeline claims, continued
\* C35: apply_updates on a payload that exists leaves its pending list
\* empty whether it returns Ok or an error.  When the k-th update fails the
\* call returns the error, the updates before it are applied, the ones
\* after it are neither applied nor kept, and a second call finds nothing
\* to apply.  An update of a batch tagged with a frame id that is not in the
\* batch is passed over and is no failure.
C35_ApplyUpdatesDrains ==
    \A s \in DOMAIN stages, i \in Ids :
        LET p == stages[s][i]
        IN p.kind # "None" =>
            /\ \A k \in 1..Len(p.updates) :
                  (p.kind = "Batch" /\ BatchGet(p.batch, p.updates[k][1]) = NoFrame)
                      => k \notin UpdateFailures(p)
            /\ \A failed \in UpdateFailures(p) :
                  LET r == apply_updates(Self, s, i, failed)
                      q == r.self.stages[s][i]
                      applied == IF failed = 0 THEN p.updates
                                 ELSE SubSeq(p.updates, 1, failed - 1)
                      again == apply_updates(r.self, s, i, 0)
                  IN /\ r.ok <=> failed = 0
                     /\ r.self = [Self EXCEPT !.stages[s][i] = q]
                     /\ q.kind = p.kind /\ q.updates = <<>>
                     /\ p.kind = "Frame" =>
                           q.frame = [p.frame EXCEPT !.attrs = @ \o applied]
                     /\ p.kind = "Batch" =>
                           \A j \in Ids :
                               q.batch[j] =
                                   IF j \in BatchIds(p.batch)
                                   THEN [p.batch[j] EXCEPT
                                            !.attrs = @ \o UpdatesFor(applied, j)]
                                   ELSE NoFrame
                     /\ again.ok /\ again.self = r.self

\* a call has failed and left a batch without pending updates
C35_Witness ==
    /\ last.op = "apply_updates" /\ ~last.ok
    /\ \E n \in DOMAIN stages, i \in Ids :
          /\ stages[n][i].kind = "Batch"
          /\ stages[n][i].updates = <<>>
          /\ BatchIds(stages[n][i].batch) # {}

\* C36: move_and_unpack_batch leaves every Frame payload that the
\* destination stage held before the call as it was, frame and pending
\* list, and when it returns Ok each frame of the batch is in the
\* destination under its frame id with the pending updates of the batch
\* tagged with that id, in order, and no other payload of the destination
\* has changed.
C36_UnpackTouchesBatchOnly ==
    \A s \in DOMAIN stages, d \in DOMAIN stages, b \in Ids :
        LET r == move_and_unpack_batch(Self, s, d, b)
            found == stages[s][b]
        IN /\ \A i \in Ids :
                 stages[d][i].kind = "Frame" => r.self.stages[d][i] = stages[d][i]
           /\ r.ok =>
                 \A i \in Ids :
                     r.self.stages[d][i] =
                         IF i \in BatchIds(found.batch)
                         THEN FramePayload(found.batch[i], UpdatesFor(found.updates, i))
                         ELSE stages[d][i]

\* ------------------------------------------ match query claims, continued
\* execute_with_new_context of a query has ended, by a return or a panic
Executed(queries) ==
    /\ mq_call.op = "execute_with_new_context"
    /\ mq_call.args[1] \in queries

\* C33: every predicate variant evaluates to a boolean on every object
\* through execute_with_new_context, none reaches the "not implemented"
\* panic, and TrackBoxAngleDefined is true exactly when the object has
\* tracking info whose box has an angle.
C33_EveryVariantEvaluates ==
    Executed(Predicates) =>
        LET query == mq_call.args[1]
            o == mq_call.args[2]
        IN /\ mq_call.state = "returned"
           /\ mq_call.ret \in BOOLEAN
           /\ query.variant = "TrackBoxAngleDefined" =>
                 mq_call.ret = (/\ o.track_info # None
                                /\ o.track_info[1].bounding_box.angle # None)

\* the `other` of a metric query as a box
OtherOf(query) ==
    RBBox(query.other[1], query.other[2], query.other[3], query.other[4], query.other[5])

\* C34: BoxMetric with IoSelf compares the share of the object's detection
\* box that `other` covers with the threshold, and TrackBoxMetric with
\* IoSelf the share of the object's track box that `other` covers.
C34_IoSelfUsesOther ==
    (Executed(Predicates) /\ mq_call.state = "returned") =>
        LET query == mq_call.args[1]
            o == mq_call.args[2]
        IN /\ (query.variant = "BoxMetric" /\ query.metric_type = "IoSelf") =>
                 mq_call.ret =
                     float_execute(query.threshold_expr,
                                   unwrap_or(ios(o.bbox, OtherOf(query)), Finite(0)))
           /\ (/\ query.variant = "TrackBoxMetric" /\ query.metric_type = "IoSelf"
               /\ o.track_info # None) =>
                 mq_call.ret =
                     float_execute(query.threshold_expr,
                                   unwrap_or(ios(o.track_info[1].bounding_box, OtherOf(query)),
                                             Finite(0)))

\* the optional field the predicate is over is undefined for the object
Undefined(query, o) ==
    CASE query.variant = "Confidence" -> o.confidence = None
      [] query.variant = "TrackId" -> o.track_info = None
      [] query.variant = "TrackBoxAngle" ->
            \/ o.track_info = None
            \/ o.track_info[1].bounding_box.angle = None
      [] query.variant \in
            {"TrackBoxXCenter", "TrackBoxYCenter", "TrackBoxWidth", "TrackBoxHeight",
             "TrackBoxArea", "TrackBoxWidthToHeightRatio", "TrackBoxAngleDefined",
             "TrackBoxMetric"} -> o.track_info = None
      [] query.variant = "BoxAngle" -> o.bbox.angle = None
      [] query.variant \in {"ParentId", "ParentCreator", "ParentLabel"} ->
            get_parent(o) = None
      [] OTHER -> FALSE

\* C40: a predicate over an optional field is false for an object whose
\* field is undefined, whatever its expression, and Not of it is true.
C40_UndefinedIsFalse ==
    /\ (Executed(Predicates) /\ Undefined(mq_call.args[1], mq_call.args[2])) =>
            mq_call.state = "returned" /\ mq_call.ret = FALSE
    /\ (/\ Executed({Not(p) : p \in Predicates})
        /\ Undefined(mq_call.args[1].q, mq_call.args[2])) =>
            mq_call.state = "returned" /\ mq_call.ret = TRUE
====
